---------------------------- MODULE Spec2Model ----------------------------
(***************************************************************************)
(* A state-machine model of the dataharvester raster utilities             *)
(* (inst/python/utils.py, inst/python/temporal.py).                        *)
(*                                                                         *)
(* The module holds one specification per component:                       *)
(*   Spec       the download log table (init_logtable / update_logtable)   *)
(*   QuerySpec  the point sampler (raster_query, _get_coords_at_point)     *)
(*   AggSpec    the reducers (aggregate_rasters, aggregate_multiband,      *)
(*              aggregate_temporal)                                        *)
(*   CombineSpec  the temporal stacking (combine_rasters_temporal)         *)
(*   ReprojSpec the reprojection (reproj_raster, reproj_rastermatch)       *)
(***************************************************************************)
EXTENDS Integers, Sequences, FiniteSets, TLC

VARIABLES
    df_log,     \* the log table the caller holds: a sequence of rows
    csv,        \* content of <settings.outpath>/df_log.csv, or NoFile
    settings,   \* the settings namespace (target_sources only)
    call        \* the last update_logtable call: its arguments and outcome

VARIABLES
    q_in,       \* raster_query: its arguments (points, rasters, titles)
    q_pc,       \* raster_query: "idle", "loop", "returned" or "raised"
    q_k,        \* raster_query: rasters of the list handled so far
    q_gdf,      \* raster_query: the columns of gdf after the fixed three
    q_points    \* raster_query: the indices computed for the last raster

VARIABLES
    a_in,       \* aggregate_*: the arguments of the call
    a_pc,       \* aggregate_*: the place the call has reached
    a_aggcheck, \* aggregate_*: aggcheck, the aggregations kept by validation
    a_meta,     \* aggregate_*: meta, the profile of file_list[0]
    a_read,     \* aggregate_*: the raster files opened for reading so far
    a_plan,     \* aggregate_*: the computed arrays still to be written, in order
    a_out       \* aggregate_*: the raster files written so far, in order

VARIABLES
    c_in,       \* combine_rasters_temporal: the arguments of the call
    c_pc,       \* combine_rasters_temporal: "idle", "loop", "concat", "returned", "raised"
    c_list,     \* combine_rasters_temporal: array_list, the files opened so far
    c_attrs,    \* combine_rasters_temporal: attrs, the time labels collected
    c_xdr       \* combine_rasters_temporal: the cube returned, <<>> if none

LogVars == <<df_log, csv, settings, call>>
QueryVars == <<q_in, q_pc, q_k, q_gdf, q_points>>
AggVars == <<a_in, a_pc, a_aggcheck, a_meta, a_read, a_plan, a_out>>

CombineVars == <<c_in, c_pc, c_list, c_attrs, c_xdr>>

VARIABLES
    r_in,       \* reproj_*: the arguments of the call
    r_pc,       \* reproj_*: "idle", "call", "written" or "raised"
    r_req,      \* reproj_*: the width and height handed to calculate_default_transform
    r_dst       \* reproj_*: the profile of the raster written to outfile, <<>> if none

ReprojVars == <<r_in, r_pc, r_req, r_dst>>

VARIABLES
    g_in,       \* collect.download: the object's state and the arguments of the call
    g_pc,       \* collect.download: "idle", "call", "returned" or "raised"
    g_disk,     \* collect.download: the content of the file at fullpath
    g_reqs,     \* collect.download: the download requests sent to Earth Engine
    g_out       \* collect.download: self.filenames after the call

GeeVars == <<g_in, g_pc, g_disk, g_reqs, g_out>>

VARIABLES
    b_in,       \* raster_buffer: the arguments of the call
    b_pc,       \* raster_buffer: "idle", "call", "returned" or "raised"
    b_pts,      \* raster_buffer: the index pairs _points_in_circle yielded, in order
    b_values    \* raster_buffer: the values returned

BufferVars == <<b_in, b_pc, b_pts, b_values>>

VARIABLES
    d_in,       \* SLGA depths: the depth options selected in the settings
    d_pc,       \* SLGA depths: "idle", "selected", "bounds" or "identifiers"
    d_bounds,   \* SLGA depths: (depth_min, depth_max) of identifier2depthbounds
    d_ids       \* SLGA depths: the result of depth2identifier

DepthVars == <<d_in, d_pc, d_bounds, d_ids>>

VARIABLES
    m_in,       \* get_dem_layers: layernames and the state of the WCS server
    m_pc,       \* get_dem_layers: "idle", "loop", "returned" or "raised"
    m_i,        \* get_dem_layers: the number of layer names handled
    m_st        \* get_dem_layers: the locals, the files of outpath and the calls made

DemVars == <<m_in, m_pc, m_i, m_st>>

VARIABLES
    w_in,       \* WCS layer download: the source and its layer names
    w_disk,     \* WCS layer download: the files of outpath and their content
    w_runs      \* WCS layer download: one record per finished run

WcsVars == <<w_in, w_disk, w_runs>>

VARIABLES
    h_in,       \* harvest.run: the settings and the preview flag
    h_pc,       \* harvest.run: the block about to run, "returned" or "raised"
    h_loc,      \* harvest.run: the local variables assigned so far
    h_log,      \* harvest.run: download_log
    h_steps,    \* harvest.run: the calls made to the data sources and the log
    h_files,    \* harvest.run: the files the download functions returned
    h_res,      \* harvest.run: the arguments of raster_query, <<>> if not called
    h_err       \* harvest.run: the exception that ended the run, "none" if none

HarvestVars == <<h_in, h_pc, h_loc, h_log, h_steps, h_files, h_res, h_err>>

CoreVars == <<LogVars, QueryVars, AggVars, CombineVars, ReprojVars>>
ExtVars == <<GeeVars, BufferVars, DepthVars, DemVars, WcsVars, HarvestVars>>

vars == <<CoreVars, ExtVars>>

(***************************************************************************)
(* Bounds of the model.                                                    *)
(***************************************************************************)
MaxRows == 2        \* rows the log table may grow to
MaxPoints == 2      \* points given to one raster_query call
MaxRasters == 2     \* rasters given to one raster_query call
MaxCombine == 2     \* files given to one combine_rasters_temporal call
MaxAgg == 2         \* names in the agg list of one aggregate_* call
AggHeight == 2      \* rows of the rasters given to aggregate_*
AggWidth == 3       \* columns of the rasters given to aggregate_*

(***************************************************************************)
(* Generic helpers.                                                        *)
(***************************************************************************)
SeqsOfLen(S, lens) == UNION {[1..k -> S] : k \in lens}

Replicate(x, n) == [i \in 1..n |-> x]

RECURSIVE Flatten(_)
Flatten(ss) == IF ss = <<>> THEN <<>> ELSE Head(ss) \o Flatten(Tail(ss))

IsPrefix(s, t) == Len(s) <= Len(t) /\ SubSeq(t, 1, Len(s)) = s

(***************************************************************************)
(* The log table: utils.py, init_logtable and update_logtable.             *)
(***************************************************************************)
NoFile == "<no file>"

LogColumns ==
    <<"layername", "agfunction", "dataset", "layertitle", "filename_out", "loginfo">>

\* init_logtable(): an empty data frame with the six columns.
init_logtable == <<>>

\* The column filename_out of a table, as the set df_log.filename_out.values.
FilenameOutValues(df) == {df[i].filename_out : i \in 1..Len(df)}

\* DataFrame.to_csv(index=False): a header line, then one line per row holding
\* the row's values in column order.
ToCsv(df) ==
    <<LogColumns>> \o
    [i \in 1..Len(df) |->
        <<df[i].layername, df[i].agfunction, df[i].dataset,
          df[i].layertitle, df[i].filename_out, df[i].loginfo>>]

\* The rows a csv file holds: every line after the header, read by column.
CsvRows(file) ==
    [i \in 1..(Len(file) - 1) |->
        [layername    |-> file[i + 1][1],
         agfunction   |-> file[i + 1][2],
         dataset      |-> file[i + 1][3],
         layertitle   |-> file[i + 1][4],
         filename_out |-> file[i + 1][5],
         loginfo      |-> file[i + 1][6]]]

\* The settings the model draws from: target_sources maps a source name to a
\* list of layer names (DEA, DEM, ...) or to a dict (SLGA, SILO: layer -> list).
\* A dict is modelled by its keys and its values, in insertion order.
Absent == [kind |-> "absent"]
SrcList(items) == [kind |-> "list", items |-> items]
SrcDict(ks, vs) == [kind |-> "dict", keys |-> ks, vals |-> vs]

DataSources == {"SLGA", "DEA"}

SettingsChoices ==
    { [SLGA |-> SrcDict(<<"Clay">>, << <<"0-5cm", "5-15cm">> >>),
       DEA  |-> SrcList(<<"landsat">>)],
      [SLGA |-> Absent,
       DEA  |-> SrcList(<<"landsat">>)],
      [SLGA |-> SrcDict(<<"layernames", "agfunctions">>,
                        << <<"Clay">>, <<"mean">> >>),
       DEA  |-> SrcDict(<<"layernames">>, << <<"landsat">> >>)] }

HasKey(src, k) == \E i \in 1..Len(src.keys) : src.keys[i] = k
Lookup(src, k) == src.vals[CHOOSE i \in 1..Len(src.keys) : src.keys[i] = k]

\* Lines 652-663: the default of agfunctions when the argument is [].  Every
\* exception of the try block (a missing key, values() of a list) ends in the
\* list of "None".
DefaultAgfunctions(st, datasource, n) ==
    IF st.SLGA.kind # "dict"
    THEN Replicate("None", n)                       \* KeyError / TypeError
    ELSE IF HasKey(st.SLGA, "agfunctions")
         THEN IF st[datasource].kind = "dict" /\ HasKey(st[datasource], "agfunctions")
              THEN Lookup(st[datasource], "agfunctions")
              ELSE Replicate("None", n)             \* KeyError / TypeError
         ELSE IF st[datasource].kind = "dict"
              THEN Flatten(st[datasource].vals)
              ELSE Replicate("None", n)             \* AttributeError

\* Lines 650-663: agfunctions after the string and the [] cases.
Agfunctions(agf, st, datasource, n) ==
    IF agf.kind = "str" THEN Replicate(agf.val, n)
    ELSE IF agf.val = <<>> THEN DefaultAgfunctions(st, datasource, n)
    ELSE agf.val

\* Lines 670-673: the default layer titles, layername_agfunction.
Layertitles(titles, layernames, agfunctions) ==
    IF titles = <<>>
    THEN [i \in 1..Len(layernames) |-> layernames[i] \o "_" \o agfunctions[i]]
    ELSE titles

\* Lines 675-680: some filename of the batch is already in the table.  The
\* data source takes no part in the test.
DuplicateEntryDatasetOnly(df, filenames, datasource) ==
    \E i \in 1..Len(filenames), j \in 1..Len(df) :
        df[j].filename_out = filenames[i] /\ df[j].dataset = datasource

DuplicateEntry(df, filenames, datasource) ==
    \E i \in 1..Len(filenames) : filenames[i] \in FilenameOutValues(df)

\* Lines 683-692: loginfos after the string and the [] cases.
Loginfos(li, n) ==
    IF li.kind = "str" THEN Replicate(li.val, n)
    ELSE IF li.val = <<>> THEN Replicate("processed", n)
    ELSE li.val

\* Lines 693-701: the rows of data_add.
DataAdd(filenames, layernames, agfunctions, datasource, layertitles, loginfos) ==
    [i \in 1..Len(layernames) |->
        [layername    |-> layernames[i],
         agfunction   |-> agfunctions[i],
         dataset      |-> datasource,
         layertitle   |-> layertitles[i],
         filename_out |-> filenames[i],
         loginfo      |-> loginfos[i]]]

\* Line 703: pd.concat([df_log, pd.DataFrame(data_add)], ignore_index=True).
ConcatPrepend(df, rows) == rows \o df

Concat(df, rows) == df \o rows

\* Line 705: df_log.to_csv(...) of the table after the concatenation.
WriteLogBatchOnly(df_new, rows) == ToCsv(rows)

WriteLog(df_new, rows) == ToCsv(df_new)

\* The arguments the model draws from.
FileNames == {"a.tif", "b.tif"}
BatchLens == 0..2
LayerNames == {"Clay"}
AgfArgs ==
    { [kind |-> "str", val |-> "mean"], [kind |-> "list", val |-> <<>>],
      [kind |-> "list", val |-> <<"mean">>] }
LoginfoArgs ==
    { [kind |-> "str", val |-> "processed"], [kind |-> "list", val |-> <<>>],
      [kind |-> "list", val |-> <<"processed">>] }
TitleArgs == { <<>>, <<"Clay_mean">> }

Returned(df_in, csv_in, filenames, layernames, datasource, outcome) ==
    [df_in |-> df_in, csv_in |-> csv_in, filenames |-> filenames,
     layernames |-> layernames, datasource |-> datasource, outcome |-> outcome]

\* update_logtable(df_log, filenames, layernames, datasource, settings,
\*                 layertitles, agfunctions, loginfos), the caller assigning the
\* returned table to df_log.  A raised exception leaves the caller's table as
\* it was.
update_logtable(filenames, layernames, datasource, titles, agf, li) ==
    LET n == Len(layernames)
        agfunctions == Agfunctions(agf, settings, datasource, n)
        layertitles == Layertitles(titles, layernames, agfunctions)
        loginfos == Loginfos(li, n)
        Reject(why) ==
            /\ call' = Returned(df_log, csv, filenames, layernames, datasource, why)
            /\ UNCHANGED <<df_log, csv, settings>>
    IN  IF Len(filenames) # n THEN Reject("mismatch")
        ELSE IF Len(agfunctions) # n THEN Reject("mismatch")
        ELSE IF DuplicateEntry(df_log, filenames, datasource) THEN Reject("duplicate")
        ELSE IF Len(loginfos) # n THEN Reject("mismatch")
        ELSE IF Len(layertitles) # n THEN Reject("raised")   \* pd.DataFrame: ValueError
        ELSE LET rows == DataAdd(filenames, layernames, agfunctions, datasource,
                                 layertitles, loginfos)
                 df_new == Concat(df_log, rows)
             IN  /\ Len(df_new) <= MaxRows
                 /\ df_log' = df_new
                 /\ csv' = WriteLog(df_new, rows)
                 /\ call' = Returned(df_log, csv, filenames, layernames, datasource,
                                      "added")
                 /\ UNCHANGED settings

UpdateLogtable ==
    \E filenames \in SeqsOfLen(FileNames, BatchLens),
       layernames \in SeqsOfLen(LayerNames, BatchLens),
       datasource \in DataSources,
       titles \in TitleArgs, agf \in AgfArgs, li \in LoginfoArgs :
        update_logtable(filenames, layernames, datasource, titles, agf, li)

\* A file of an earlier run may already lie in settings.outpath.
StaleCsv ==
    ToCsv(<< [layername |-> "Clay", agfunction |-> "mean", dataset |-> "SLGA",
              layertitle |-> "Clay_mean", filename_out |-> "old.tif",
              loginfo |-> "downloaded"] >>)

LogInit ==
    /\ df_log = init_logtable
    /\ csv \in {NoFile, StaleCsv}
    /\ settings \in SettingsChoices
    /\ call = Returned(init_logtable, csv, <<>>, <<>>, "SLGA", "none")

\* The components that take no part in a specification stay idle.
LogIdle ==
    /\ df_log = init_logtable
    /\ csv = NoFile
    /\ settings = [SLGA |-> Absent, DEA |-> Absent]
    /\ call = Returned(init_logtable, NoFile, <<>>, <<>>, "SLGA", "none")

QueryIdle ==
    /\ q_in = [points |-> <<>>, rasters |-> <<>>, titles |-> <<>>, titled |-> FALSE]
    /\ q_pc = "idle"
    /\ q_k = 0
    /\ q_gdf = <<>>
    /\ q_points = <<>>

AggIdle ==
    /\ a_in = [fn |-> "none"]
    /\ a_pc = "idle"
    /\ a_aggcheck = <<>>
    /\ a_meta = <<>>
    /\ a_read = <<>>
    /\ a_plan = <<>>
    /\ a_out = <<>>

CombineIdle ==
    /\ c_in = [file_list |-> <<>>, channel_name |-> "band", attribute_name |-> "long_name"]
    /\ c_pc = "idle"
    /\ c_list = <<>>
    /\ c_attrs = <<>>
    /\ c_xdr = <<>>

ReprojIdle ==
    /\ r_in = [fn |-> "none"]
    /\ r_pc = "idle"
    /\ r_req = <<>>
    /\ r_dst = <<>>

GeeIdle ==
    /\ g_in = [fn |-> "none"]
    /\ g_pc = "idle"
    /\ g_disk = "absent"
    /\ g_reqs = <<>>
    /\ g_out = <<>>

BufferIdle ==
    /\ b_in = [fn |-> "none"]
    /\ b_pc = "idle"
    /\ b_pts = <<>>
    /\ b_values = <<>>

DepthIdle ==
    /\ d_in = {}
    /\ d_pc = "idle"
    /\ d_bounds = <<>>
    /\ d_ids = <<>>

DemIdle ==
    /\ m_in = <<>>
    /\ m_pc = "idle"
    /\ m_i = 0
    /\ m_st = <<>>

WcsIdle ==
    /\ w_in = [source |-> "none"]
    /\ w_disk = <<>>
    /\ w_runs = <<>>

HarvestIdle ==
    /\ h_in = [fn |-> "none"]
    /\ h_pc = "idle"
    /\ h_loc = {}
    /\ h_log = <<>>
    /\ h_steps = <<>>
    /\ h_files = {}
    /\ h_res = <<>>
    /\ h_err = "none"

CoreIdle == LogIdle /\ QueryIdle /\ AggIdle /\ CombineIdle /\ ReprojIdle
ExtIdle == GeeIdle /\ BufferIdle /\ DepthIdle /\ DemIdle /\ WcsIdle /\ HarvestIdle

Init == LogInit /\ QueryIdle /\ AggIdle /\ CombineIdle /\ ReprojIdle /\ ExtIdle

Next == UpdateLogtable /\ UNCHANGED <<QueryVars, AggVars, CombineVars, ReprojVars, ExtVars>>

Spec == Init /\ [][Next]_vars

(***************************************************************************)
(* Claims about the log table, checked under Spec.                         *)
(***************************************************************************)

\* C1: every reachable log table has pairwise distinct filename_out values,
\* also when one batch lists the same filename twice.
C1_UniqueFilenameOut ==
    \A i, j \in 1..Len(df_log) :
        i # j => df_log[i].filename_out # df_log[j].filename_out

\* C2: a call whose batch holds a filename that is already in the table's
\* filename_out column returns the table it was given, with no row added,
\* whatever data source the existing row was logged under.
C2_DuplicateReturnsUnchanged ==
    (/\ call.outcome # "none"
     /\ \E i \in 1..Len(call.filenames) :
            call.filenames[i] \in FilenameOutValues(call.df_in))
    => (call.outcome \in {"mismatch", "duplicate"} /\ df_log = call.df_in)

\* C2 witness: a call rejected as a duplicate whose filename was logged under
\* another data source.
C2_Witness ==
    /\ call.outcome = "duplicate"
    /\ df_log = call.df_in
    /\ \E i \in 1..Len(call.filenames), j \in 1..Len(call.df_in) :
          /\ call.df_in[j].filename_out = call.filenames[i]
          /\ call.df_in[j].dataset # call.datasource

\* C3: the log table is append-only: the rows of the table given to a call
\* are, unchanged and in order, the first rows of the table it returns.
C3_AppendOnly == IsPrefix(call.df_in, df_log)

\* C3 witness: a call that added rows to a table that already held rows.
C3_Witness ==
    /\ call.outcome = "added"
    /\ Len(call.df_in) > 0
    /\ Len(df_log) > Len(call.df_in)

\* C4: once a call has added rows, df_log.csv holds exactly the rows of the
\* current table (all of them); a rejected call leaves table and file as
\* they were.
C4_LogPersistedInFull ==
    /\ Len(df_log) > 0 => (csv # NoFile /\ CsvRows(csv) = df_log)
    /\ call.outcome \in {"mismatch", "duplicate"}
          => (df_log = call.df_in /\ csv = call.csv_in)

\* C4 witness: the second batch of additions has been written, and the file
\* holds the rows of both batches.
C4_Witness ==
    /\ call.outcome = "added"
    /\ Len(call.df_in) > 0
    /\ Len(df_log) > Len(call.df_in)
    /\ csv # NoFile
    /\ Len(CsvRows(csv)) = Len(df_log)
    /\ CsvRows(csv) = df_log

\* C16: a call of update_logtable whose filenames and layernames differ in
\* length ends by raising an error.
C16_MismatchedLengthsRaise ==
    (/\ call.outcome # "none"
     /\ Len(call.filenames) # Len(call.layernames))
    => call.outcome = "raised"

(***************************************************************************)
(* The point sampler: utils.py, _get_coords_at_point and raster_query.     *)
(*                                                                         *)
(* Coordinates are integers in a unit that divides every pixel size and    *)
(* origin of the model's rasters, so the float quotient of the code is the *)
(* exact rational n / d and int() of it is its truncation toward zero.     *)
(***************************************************************************)
Abs(n) == IF n < 0 THEN -n ELSE n

\* int(n / d) of Python for a float quotient: truncation toward zero.
IntOfQuotient(n, d) ==
    LET q == Abs(n) \div Abs(d)
    IN  IF (n < 0) # (d < 0) THEN -q ELSE q

\* floor(n / d).
FloorOfQuotient(n, d) == IF d > 0 THEN n \div d ELSE (-n) \div (-d)

\* gt[i] of the affine transform (a, b, c, d, e, f), i counted from 0.
GT(gt, i) == gt[i + 1]

\* _get_coords_at_point(gt, lon, lat): the pair (col, row) it returns, where
\* the code's row is the index along x and its col the index along y.
get_coords_swapped(gt, lon, lat) ==
    LET row == IntOfQuotient(lon - GT(gt, 2), GT(gt, 0))
        col == IntOfQuotient(lat - GT(gt, 5), GT(gt, 4))
    IN  <<row, col>>

get_coords_at_point(gt, lon, lat) ==
    LET row == IntOfQuotient(lon - GT(gt, 2), GT(gt, 0))
        col == IntOfQuotient(lat - GT(gt, 5), GT(gt, 4))
    IN  <<col, row>>

\* The files of the model.  A raster has a transform and its first band, an
\* array of Height rows and Width columns; no pixel holds 0, so a recorded 0 is
\* the sentinel.
Missing == [kind |-> "missing"]
RasterFile(gt, arr) == [kind |-> "raster", transform |-> gt, arr |-> arr]

FilePaths == {"out/dem.tif", "out/slope.tif", "out/gone.tif"}

Files ==
    [p \in FilePaths |->
        CASE p = "out/dem.tif" ->
                RasterFile(<<2, 0, 0, 0, -2, 6>>, << <<11, 12, 13>>, <<14, 15, 16>> >>)
          [] p = "out/slope.tif" ->
                RasterFile(<<1, 0, 2, 0, -1, 4>>, << <<21, 22>>, <<23, 24>>, <<25, 26>> >>)
          [] OTHER -> Missing]

\* Path(filepath).stem
Stem(p) ==
    CASE p = "out/dem.tif" -> "dem"
      [] p = "out/slope.tif" -> "slope"
      [] OTHER -> "gone"

Height(arr) == Len(arr)
Width(arr) == Len(arr[1])

\* arr[i, j] of numpy: an index from -n to n - 1 is valid along an axis of
\* length n, a negative one counting from the end; any other raises IndexError.
IndexAlwaysValid(arr, i, j) == TRUE

IndexValid(arr, i, j) ==
    /\ -Height(arr) <= i /\ i < Height(arr)
    /\ -Width(arr) <= j /\ j < Width(arr)

ArrAt(arr, i, j) == arr[(i % Height(arr)) + 1][(j % Width(arr)) + 1]

\* Lines 583-591: the value recorded for one point; the bare except turns the
\* IndexError into the sentinel 0.
SampleAt(raster, lon, lat) ==
    LET point == get_coords_at_point(raster.transform, lon, lat)
    IN  IF IndexValid(raster.arr, point[1], point[2])
        THEN ArrAt(raster.arr, point[1], point[2])
        ELSE 0

\* rasters.index(filepath): the first position of filepath in the list.
IndexOf(rasters, filepath) ==
    CHOOSE i \in 1..Len(rasters) :
        rasters[i] = filepath /\ \A j \in 1..(i - 1) : rasters[j] # filepath

\* Lines 561-564: the column name of a raster.
Colname(inp, filepath) ==
    IF inp.titled THEN inp.titles[IndexOf(inp.rasters, filepath)] ELSE Stem(filepath)

\* gdf[name] = values: an existing column of that name is overwritten in
\* place, otherwise the column is added last.
SetColumn(cols, name, values) ==
    IF \E i \in 1..Len(cols) : cols[i].name = name
    THEN [i \in 1..Len(cols) |->
            IF cols[i].name = name THEN [name |-> name, values |-> values] ELSE cols[i]]
    ELSE Append(cols, [name |-> name, values |-> values])

\* gdf.rename(columns={old: new})
RenameColumn(cols, old, new) ==
    [i \in 1..Len(cols) |->
        IF cols[i].name = old THEN [name |-> new, values |-> cols[i].values] ELSE cols[i]]

\* The points of the model, (lon, lat): inside both rasters, a pixel inside
\* the first, less than a pixel and more than a pixel beyond the origin edges,
\* on the far edge, far away to the north-east, the south-west and the west.
PointChoices ==
    { <<3, 3>>, <<4, 4>>, <<1, 5>>, <<-1, 5>>, <<-3, 5>>, <<3, 7>>, <<6, 2>>,
      <<100, 100>>, <<-100, -100>>, <<-100, 3>> }

TitleNames == <<"Elevation", "Slope", "Other", "More">>

QueryInputs ==
    { [points |-> pts, rasters |-> rs, titles |-> ts, titled |-> td] :
        pts \in SeqsOfLen(PointChoices, 0..MaxPoints),
        rs \in SeqsOfLen(FilePaths, 0..MaxRasters),
        ts \in {<<>>}, td \in {FALSE} }
    \cup
    { [points |-> pts, rasters |-> rs,
       titles |-> SubSeq(TitleNames, 1, Len(rs)), titled |-> TRUE] :
        pts \in SeqsOfLen(PointChoices, 0..MaxPoints),
        rs \in SeqsOfLen(FilePaths, 0..MaxRasters) }

\* Lines 543-548: the call has built gdf from the points and enters the loop.
QueryInit ==
    /\ q_in \in QueryInputs
    /\ q_pc = "loop"
    /\ q_k = 0
    /\ q_gdf = <<>>
    /\ q_points = <<>>

\* Lines 551-596, one pass of the loop for a raster that opens.
QuerySample ==
    /\ q_pc = "loop"
    /\ q_k < Len(q_in.rasters)
    /\ LET filepath == q_in.rasters[q_k + 1]
           raster == Files[filepath]
           pts == q_in.points
       IN  /\ raster.kind = "raster"
           /\ q_points' = [i \in 1..Len(pts) |->
                  get_coords_at_point(raster.transform, pts[i][1], pts[i][2])]
           /\ q_gdf' = RenameColumn(
                  SetColumn(q_gdf, filepath,
                      [i \in 1..Len(pts) |-> SampleAt(raster, pts[i][1], pts[i][2])]),
                  filepath, Colname(q_in, filepath))
    /\ q_k' = q_k + 1
    /\ UNCHANGED <<q_in, q_pc>>
    /\ UNCHANGED <<LogVars, AggVars, CombineVars, ReprojVars, ExtVars>>

\* Line 555: rasterio.open raises for a file that cannot be opened; nothing
\* in raster_query catches it, so the call ends without a table.
QueryOpenFails ==
    /\ q_pc = "loop"
    /\ q_k < Len(q_in.rasters)
    /\ Files[q_in.rasters[q_k + 1]].kind = "missing"
    /\ q_pc' = "raised"
    /\ q_gdf' = <<>>
    /\ UNCHANGED <<q_in, q_k, q_points>>
    /\ UNCHANGED <<LogVars, AggVars, CombineVars, ReprojVars, ExtVars>>

\* Line 598: return gdf.
QueryReturn ==
    /\ q_pc = "loop"
    /\ q_k = Len(q_in.rasters)
    /\ q_pc' = "returned"
    /\ UNCHANGED <<q_in, q_k, q_gdf, q_points>>
    /\ UNCHANGED <<LogVars, AggVars, CombineVars, ReprojVars, ExtVars>>

QueryNext == QuerySample \/ QueryOpenFails \/ QueryReturn

QuerySpecInit == QueryInit /\ LogIdle /\ AggIdle /\ CombineIdle /\ ReprojIdle /\ ExtIdle

QuerySpec == QuerySpecInit /\ [][QueryNext]_vars

(***************************************************************************)
(* Claims about the point sampler, checked under QuerySpec.                *)
(***************************************************************************)
InPixelBounds(arr, i, j) ==
    /\ 0 <= i /\ i < Height(arr)
    /\ 0 <= j /\ j < Width(arr)

\* C5: whenever the index computed for a point lies outside the raster's
\* pixel bounds (below 0, or at or beyond the height or width), the value
\* recorded for the point in that raster's column is the sentinel 0.
C5_OutOfBoundsGivesSentinel ==
    (q_pc = "loop" /\ q_k > 0) =>
        LET raster == Files[q_in.rasters[q_k]]
            name == Colname(q_in, q_in.rasters[q_k])
        IN  \A c \in 1..Len(q_gdf) : \A i \in 1..Len(q_points) :
                (/\ q_gdf[c].name = name
                 /\ ~InPixelBounds(raster.arr, q_points[i][1], q_points[i][2]))
                => q_gdf[c].values[i] = 0

\* C6: the indices returned for a point are the floors of the two quotients,
\* the first from the latitude and the second from the longitude, also for
\* a negative quotient.
C6_IndexIsFloor ==
    (q_pc = "loop" /\ q_k > 0) =>
        LET gt == Files[q_in.rasters[q_k]].transform
        IN  \A i \in 1..Len(q_points) :
                q_points[i] =
                    << FloorOfQuotient(q_in.points[i][2] - GT(gt, 5), GT(gt, 4)),
                       FloorOfQuotient(q_in.points[i][1] - GT(gt, 2), GT(gt, 0)) >>

\* C7: when a raster of the list fails to open the call still returns, with
\* the column of every raster that does open.
C7_OpenFailureKeepsOtherColumns ==
    (/\ q_pc \in {"returned", "raised"}
     /\ \E k \in 1..Len(q_in.rasters) : Files[q_in.rasters[k]].kind = "missing")
    => /\ q_pc = "returned"
       /\ \A k \in 1..Len(q_in.rasters) :
             Files[q_in.rasters[k]].kind = "raster"
             => \E c \in 1..Len(q_gdf) : q_gdf[c].name = Colname(q_in, q_in.rasters[k])

\* C13: the table raster_query returns has one value column per entry of
\* rasters, in order, column k named titles[k] (or, without titles, the stem
\* of rasters[k]), and every column has one value per point, in point order;
\* with no points the columns are there and empty.
C13_OneRowPerPointOneColumnPerRaster ==
    (q_pc = "returned") =>
        /\ Len(q_gdf) = Len(q_in.rasters)
        /\ \A k \in 1..Len(q_gdf) :
              /\ q_gdf[k].name = IF q_in.titled THEN q_in.titles[k]
                                 ELSE Stem(q_in.rasters[k])
              /\ Len(q_gdf[k].values) = Len(q_in.points)
              /\ \A i \in 1..Len(q_in.points) :
                    q_gdf[k].values[i] =
                        SampleAt(Files[q_in.rasters[k]],
                                 q_in.points[i][1], q_in.points[i][2])

\* The index <<along y, along x>> of the pixel whose cell contains the point:
\* the inverse of the affine transform (a, b, c, d, e, f), floored.
InverseAffine(gt, lon, lat) ==
    LET det == GT(gt, 0) * GT(gt, 4) - GT(gt, 1) * GT(gt, 3)
        x == GT(gt, 4) * (lon - GT(gt, 2)) - GT(gt, 1) * (lat - GT(gt, 5))
        y == GT(gt, 0) * (lat - GT(gt, 5)) - GT(gt, 3) * (lon - GT(gt, 2))
    IN  <<FloorOfQuotient(y, det), FloorOfQuotient(x, det)>>

Between(v, p, q) == (p <= v /\ v <= q) \/ (q <= v /\ v <= p)

\* The point lies in the raster's extent at least one pixel away from each
\* of its four edges.
InsideByPixelMargin(raster, lon, lat) ==
    LET gt == raster.transform
    IN  /\ Between(lon - GT(gt, 2), GT(gt, 0),
                   GT(gt, 0) * (Width(raster.arr) - 1))
        /\ Between(lat - GT(gt, 5), GT(gt, 4),
                   GT(gt, 4) * (Height(raster.arr) - 1))

FarOutside(raster, lon, lat) ==
    LET gt == raster.transform
        w == Abs(GT(gt, 0)) * (Width(raster.arr) + 1)
        h == Abs(GT(gt, 4)) * (Height(raster.arr) + 1)
        x0 == GT(gt, 2)
        x1 == GT(gt, 2) + GT(gt, 0) * Width(raster.arr)
        y0 == GT(gt, 5)
        y1 == GT(gt, 5) + GT(gt, 4) * Height(raster.arr)
    IN  \/ lon < x0 - w /\ lon < x1 - w
        \/ lon > x0 + w /\ lon > x1 + w
        \/ lat < y0 - h /\ lat < y1 - h
        \/ lat > y0 + h /\ lat > y1 + h

\* C15: a point far outside a raster gets the sentinel 0 in that raster's
\* column, and the call raises only when a raster does not open, never
\* because of a point.
C15_FarPointGivesSentinelNeverRaises ==
    /\ (q_pc = "raised") => Files[q_in.rasters[q_k + 1]].kind = "missing"
    /\ (q_pc = "loop" /\ q_k > 0) =>
          LET raster == Files[q_in.rasters[q_k]]
              name == Colname(q_in, q_in.rasters[q_k])
          IN  \A c \in 1..Len(q_gdf) : \A i \in 1..Len(q_in.points) :
                  (/\ q_gdf[c].name = name
                   /\ FarOutside(raster, q_in.points[i][1], q_in.points[i][2]))
                  => q_gdf[c].values[i] = 0
    /\ (q_pc = "returned"
         /\ \A i \in 1..Len(q_in.points) : \A k \in 1..Len(q_in.rasters) :
               FarOutside(Files[q_in.rasters[k]], q_in.points[i][1], q_in.points[i][2]))
        => \A c \in 1..Len(q_gdf) : \A i \in 1..Len(q_in.points) :
               q_gdf[c].values[i] = 0

\* C15 witness: a call with the far points (100, 100) and (-100, 3) over two
\* rasters has returned, with 0 for both points in both columns.
C15_Witness ==
    /\ q_pc = "returned"
    /\ q_in.points = << <<100, 100>>, <<-100, 3>> >>
    /\ Len(q_in.rasters) = 2
    /\ Len(q_gdf) = 2
    /\ \A c \in 1..2 : q_gdf[c].values = <<0, 0>>

(***************************************************************************)
(* The reducers: utils.py, _read_file, aggregate_rasters and               *)
(* aggregate_multiband; temporal.py, aggregate_temporal.                   *)
(*                                                                         *)
(* Pixel values are integers and a statistic is the exact rational         *)
(* <<numerator, denominator>> in lowest terms; no pixel is NaN.            *)
(***************************************************************************)
RECURSIVE GCD(_, _)
GCD(a, b) == IF b = 0 THEN a ELSE GCD(b, a % b)

Rat(n, d) == LET g == GCD(Abs(n), d) IN <<n \div g, d \div g>>

RECURSIVE SumSeq(_)
SumSeq(vs) == IF vs = <<>> THEN 0 ELSE Head(vs) + SumSeq(Tail(vs))

Sorted(vs) == SortSeq(vs, LAMBDA x, y : x < y)

\* np.nanpercentile(..., q) and quantile(q / 100): linear interpolation
\* between the two nearest ranks.
Percentile(vs, q) ==
    LET sv == Sorted(vs)
        n == Len(sv)
        pos == q * (n - 1)
        lo == pos \div 100
        fr == pos % 100
        hi == IF lo + 1 < n THEN lo + 1 ELSE lo
    IN  Rat(100 * sv[lo + 1] + fr * (sv[hi + 1] - sv[lo + 1]), 100)

\* One statistic of the values vs (never empty).
Stat(a, vs) ==
    CASE a = "mean"   -> Rat(SumSeq(vs), Len(vs))
      [] a = "median" -> Percentile(vs, 50)
      [] a = "sum"    -> Rat(SumSeq(vs), 1)
      [] a = "perc95" -> Percentile(vs, 95)
      [] a = "perc5"  -> Percentile(vs, 5)
      [] a = "max"    -> Rat(Sorted(vs)[Len(vs)], 1)
      [] a = "min"    -> Rat(Sorted(vs)[1], 1)

\* A numpy array of one or two dimensions and its shape.
Arr1(data) == [ndim |-> 1, data |-> data]
Arr2(data) == [ndim |-> 2, data |-> data]
Shape(arr) ==
    IF arr.ndim = 1 THEN <<Len(arr.data)>>
    ELSE <<Len(arr.data), Len(arr.data[1])>>

\* The arrays of a list can be stacked: all have one shape.
Stackable(list) ==
    /\ list # <<>>
    /\ \A k \in 1..Len(list) :
          list[k].ndim = list[1].ndim /\ Shape(list[k]) = Shape(list[1])

\* np.nan<stat>(list, axis=0): the statistic across the entries of the list,
\* element by element of the entries.
Reduce0(list, a) ==
    IF list[1].ndim = 1
    THEN Arr1([j \in 1..Len(list[1].data) |->
                 Stat(a, [k \in 1..Len(list) |-> list[k].data[j]])])
    ELSE Arr2([i \in 1..Len(list[1].data) |->
                 [j \in 1..Len(list[1].data[1]) |->
                     Stat(a, [k \in 1..Len(list) |-> list[k].data[i][j]])]])

\* The raster files of the model: bands of AggHeight rows and AggWidth columns.
ConstBand(v, h, w) == [i \in 1..h |-> [j \in 1..w |-> v]]
RampBand(v, h, w) == [i \in 1..h |-> [j \in 1..w |-> v + 10 * i + j]]
Bands(bs) == [kind |-> "raster", bands |-> bs]

AggPaths ==
    {"r1.tif", "r2.tif", "r3.tif", "ramp.tif", "wide.tif", "rgb1.tif", "rgb2.tif",
     "gone.tif"}

AggFiles ==
    [p \in AggPaths |->
        CASE p = "r1.tif" -> Bands(<<ConstBand(1, AggHeight, AggWidth)>>)
          [] p = "r2.tif" -> Bands(<<ConstBand(2, AggHeight, AggWidth)>>)
          [] p = "r3.tif" -> Bands(<<ConstBand(3, AggHeight, AggWidth)>>)
          [] p = "ramp.tif" -> Bands(<<RampBand(0, AggHeight, AggWidth)>>)
          [] p = "wide.tif" -> Bands(<<ConstBand(4, AggHeight, AggWidth + 1)>>)
          [] p = "rgb1.tif" ->
                Bands(<<RampBand(100, AggHeight, AggWidth),
                        RampBand(200, AggHeight, AggWidth),
                        RampBand(300, AggHeight, AggWidth)>>)
          [] p = "rgb2.tif" ->
                Bands(<<ConstBand(7, AggHeight, AggWidth),
                        ConstBand(8, AggHeight, AggWidth),
                        ConstBand(9, AggHeight, AggWidth)>>)
          [] OTHER -> Missing]

\* glob(os.path.join(data_dir, "*.tif")) of the model's directory.
DirFiles == <<"r1.tif", "r2.tif", "r3.tif">>

NoneValue == "None"

\* _read_file(file): band 1 as a 2-d array for a single-band file, else all
\* bands as a 3-d array, given here as the list of its 2-d bands.
read_file(file) ==
    IF Len(AggFiles[file].bands) = 1
    THEN [dims |-> 1, arr |-> Arr2(AggFiles[file].bands[1])]
    ELSE [dims |-> Len(AggFiles[file].bands), bands |-> AggFiles[file].bands]

\* array_list.extend(_read_file(x)): the entries along the first axis, the
\* rows of a 2-d array or the bands of a 3-d one.
ExtendEntries(file) ==
    LET d == read_file(file)
    IN  IF d.dims = 1
        THEN [i \in 1..Len(d.arr.data) |-> Arr1(d.arr.data[i])]
        ELSE [b \in 1..d.dims |-> Arr2(d.bands[b])]

RECURSIVE ExtendAll(_)
ExtendAll(files) ==
    IF files = <<>> THEN <<>> ELSE ExtendEntries(Head(files)) \o ExtendAll(Tail(files))

\* The longest prefix of the list whose files open.
RECURSIVE Readable(_)
Readable(files) ==
    IF files = <<>> \/ AggFiles[Head(files)].kind = "missing" THEN <<>>
    ELSE <<Head(files)>> \o Readable(Tail(files))

SelectSeqIn(sq, S) == SelectSeq(sq, LAMBDA x : x \in S)

\* agg_types of the three functions.
AggTypes(fn) ==
    IF fn = "aggregate_temporal"
    THEN {"mean", "median", "sum", "perc95", "perc5", "max", "min"}
    ELSE {"mean", "median", "sum", "perc95", "perc5"}

\* aggcheck = [a for a in agg if a in agg_types]
Aggcheck(fn, agg) == SelectSeqIn(agg, AggTypes(fn))

\* "if aggcheck is None: raise ValueError": a list is never None.
AggcheckRaises(fn, agg) == FALSE

Planned(name, a, tag, arr) == [name |-> name, a |-> a, tag |-> tag, arr |-> arr]

\* aggregate_rasters, lines 384-409: the statistics of array_list, one output
\* per kept aggregation.
RastersPlan(files, aggcheck, outfile) ==
    LET array_list == ExtendAll(files)
    IN  [i \in 1..Len(aggcheck) |->
            Planned(outfile \o "_" \o aggcheck[i] \o ".tif", aggcheck[i], "",
                    Reduce0(array_list, aggcheck[i]))]

\* aggregate_multiband, lines 463-505: per channel 0, 1, 2 the statistics of
\* that band across the files, one output per channel and kept aggregation.
MultibandPlanAllBands(files, aggcheck, outfile) ==
    LET n == Len(aggcheck)
    IN  [i \in 1..(3 * n) |->
            LET c == (i - 1) \div n
                a == aggcheck[((i - 1) % n) + 1]
            IN  Planned(outfile \o "_" \o a \o "_channel_" \o ToString(c) \o ".tif",
                        a, ToString(c), Reduce0(ExtendAll(files), a))]

MultibandPlan(files, aggcheck, outfile) ==
    LET Channel(c) == [k \in 1..Len(files) |-> Arr2(read_file(files[k]).bands[c + 1])]
        n == Len(aggcheck)
    IN  [i \in 1..(3 * n) |->
            LET c == (i - 1) \div n
                a == aggcheck[((i - 1) % n) + 1]
            IN  Planned(outfile \o "_" \o a \o "_channel_" \o ToString(c) \o ".tif",
                        a, ToString(c), Reduce0(Channel(c), a))]

\* The time-indexed cubes of the model: layers in time order, each with its
\* calendar year and month, its day counted from 2019-01-01, its hour of the
\* day, and its pixels.
LayerAt(y, m, d, h, data) ==
    [year |-> y, month |-> m, day |-> d, hour |-> h, data |-> data]

Layer(y, m, d, data) == LayerAt(y, m, d, 0, data)

\* The time stamp of a layer, in hours.
Stamp(layer) == 24 * layer.day + layer.hour

\* Three half-daily layers from 2020-01-01 00:00 on.
HalfDailyCube ==
    << LayerAt(2020, 1, 365, 0, ConstBand(1, AggHeight, AggWidth)),
       LayerAt(2020, 1, 365, 12, ConstBand(2, AggHeight, AggWidth)),
       LayerAt(2020, 1, 366, 0, ConstBand(4, AggHeight, AggWidth)) >>

\* Twenty-four monthly layers of the calendar years 2020 and 2021.
MonthlyCube ==
    [k \in 1..24 |->
        Layer(2020 + ((k - 1) \div 12), ((k - 1) % 12) + 1,
              365 + 30 * (k - 1) + ((k - 1) \div 2),
              ConstBand(k, AggHeight, AggWidth))]

Cubes ==
    { MonthlyCube, HalfDailyCube,
      << Layer(2020, 11, 670, ConstBand(1, AggHeight, AggWidth)),
         Layer(2020, 12, 700, ConstBand(2, AggHeight, AggWidth)),
         Layer(2021, 1, 731, ConstBand(3, AggHeight, AggWidth)),
         Layer(2021, 2, 762, ConstBand(5, AggHeight, AggWidth)) >>,
      << Layer(2020, 1, 365, RampBand(0, AggHeight, AggWidth)),
         Layer(2021, 1, 731, RampBand(2, AggHeight, AggWidth)),
         Layer(2021, 7, 912, RampBand(7, AggHeight, AggWidth)) >> }

RECURSIVE SetToSortedSeq(_)
SetToSortedSeq(S) ==
    IF S = {} THEN <<>>
    ELSE LET m == CHOOSE x \in S : \A y \in S : x <= y
         IN  <<m>> \o SetToSortedSeq(S \ {m})

\* The groups of a cube as <<label, indices of the member layers>>, in the
\* order the grouped result is iterated.
\* groupby('time.year')
YearGroupsOfLayers(xdr) ==
    [g \in 1..Len(xdr) |-> [label |-> ToString(xdr[g].year), members |-> {g}]]

YearGroups(xdr) ==
    LET ys == SetToSortedSeq({xdr[k].year : k \in 1..Len(xdr)})
    IN  [g \in 1..Len(ys) |->
            [label |-> ToString(ys[g]),
             members |-> {k \in 1..Len(xdr) : xdr[k].year = ys[g]}]]

\* groupby('time.month'); the label is str(month).zfill(2)
MonthGroups(xdr) ==
    LET ms == SetToSortedSeq({xdr[k].month : k \in 1..Len(xdr)})
    IN  [g \in 1..Len(ms) |->
            [label |-> IF ms[g] < 10 THEN "0" \o ToString(ms[g]) ELSE ToString(ms[g]),
             members |-> {k \in 1..Len(xdr) : xdr[k].month = ms[g]}]]

\* groupby_bins('time', bins): bins intervals of equal width over the time
\* range, closed on the right, the first one widened to the left by a
\* thousandth of the range; a group per interval that holds a layer.  The
\* label, str(interval)[1:11], is the date of the interval's left edge,
\* given here as its day number.
BinOf(xdr, bins, k) ==
    LET mn == Stamp(xdr[1])
        range == Stamp(xdr[Len(xdr)]) - mn
    IN  IF Stamp(xdr[k]) = mn THEN 1
        ELSE ((Stamp(xdr[k]) - mn) * bins + range - 1) \div range

BinLeftDay(xdr, bins, b) ==
    LET mn == Stamp(xdr[1])
        range == Stamp(xdr[Len(xdr)]) - mn
    IN  IF b = 1 THEN (1000 * mn - range) \div (24 * 1000)
        ELSE (mn * bins + (b - 1) * range) \div (24 * bins)

BinGroups(xdr, bins) ==
    LET bs == SetToSortedSeq({BinOf(xdr, bins, k) : k \in 1..Len(xdr)})
    IN  [g \in 1..Len(bs) |->
            [label |-> "day" \o ToString(BinLeftDay(xdr, bins, bs[g])),
             members |-> {k \in 1..Len(xdr) : BinOf(xdr, bins, k) = bs[g]}]]

\* Lines 124-137.  bins = int(np.floor(len(xdr) / period)).
PeriodBins(xdr, period) == Len(xdr) \div period.val

\* The period raises: one that is neither of the two strings nor of type int
\* reaches the final else (ValueError); so do groupby_bins with no bin and
\* the division by a period of 0.
PeriodAccepted(xdr, period) == FALSE

PeriodRaises(xdr, period) ==
    IF period.kind = "str" THEN period.val \notin {"yearly", "monthly"}
    ELSE IF period.kind = "int"
    THEN period.val <= 0 \/ PeriodBins(xdr, period) <= 0
    ELSE TRUE

Groups(xdr, period) ==
    IF period.kind = "str"
    THEN IF period.val = "yearly" THEN YearGroups(xdr) ELSE MonthGroups(xdr)
    ELSE BinGroups(xdr, PeriodBins(xdr, period))

\* Lines 143-172: for every kept aggregation, for every group, one output.
TemporalPlan(xdr, period, aggcheck, outfile) ==
    LET gs == Groups(xdr, period)
        ng == Len(gs)
        GroupArrays(g) ==
            LET ks == SetToSortedSeq(gs[g].members)
            IN  [k \in 1..Len(ks) |-> Arr2(xdr[ks[k]].data)]
    IN  [i \in 1..(Len(aggcheck) * ng) |->
            LET a == aggcheck[((i - 1) \div ng) + 1]
                g == ((i - 1) % ng) + 1
            IN  Planned(outfile \o "_" \o a \o "_" \o gs[g].label \o ".tif",
                        a, gs[g].label, Reduce0(GroupArrays(g), a))]

\* The arguments the model draws from.
AggNames == {"mean", "sum", "max", "stddev"}

FileLists ==
    { <<>>, <<"r1.tif">>, <<"r1.tif", "r2.tif", "r3.tif">>, <<"ramp.tif", "r2.tif">>,
      <<"rgb1.tif", "rgb2.tif">>, <<"r1.tif", "gone.tif">>, <<"gone.tif">>,
      <<"r1.tif", "wide.tif">>, <<"rgb1.tif", "r1.tif">> }

Periods ==
    { [kind |-> "str", val |-> "yearly"], [kind |-> "str", val |-> "monthly"],
      [kind |-> "str", val |-> "weekly"], [kind |-> "float", val |-> 2],
      [kind |-> "int", val |-> 1], [kind |-> "int", val |-> 2],
      [kind |-> "int", val |-> 4] }

AggCall(fn, has_list, file_list, has_dir, agg, period, xdr) ==
    [fn |-> fn, has_list |-> has_list, file_list |-> file_list, has_dir |-> has_dir,
     agg |-> agg, outfile |-> "out/agg", period |-> period, xdr |-> xdr]

AggInputs ==
    { AggCall(fn, TRUE, fl, hd, agg, [kind |-> "str", val |-> "yearly"], <<>>) :
        fn \in {"aggregate_rasters", "aggregate_multiband"},
        fl \in FileLists, hd \in BOOLEAN, agg \in SeqsOfLen(AggNames, 0..MaxAgg) }
    \cup
    { AggCall(fn, FALSE, <<>>, hd, agg, [kind |-> "str", val |-> "yearly"], <<>>) :
        fn \in {"aggregate_rasters", "aggregate_multiband"},
        hd \in BOOLEAN, agg \in SeqsOfLen(AggNames, 0..MaxAgg) }
    \cup
    { AggCall("aggregate_temporal", FALSE, <<>>, FALSE, agg, period, xdr) :
        agg \in SeqsOfLen(AggNames, 0..MaxAgg), period \in Periods, xdr \in Cubes }

\* file_list after lines 372-376.
FileList(inp) == IF inp.has_dir THEN DirFiles ELSE inp.file_list

AggInit ==
    /\ a_in \in AggInputs
    /\ a_pc = "validate"
    /\ a_aggcheck = <<>>
    /\ a_meta = <<>>
    /\ a_read = <<>>
    /\ a_plan = <<>>
    /\ a_out = <<>>

AggRaise == a_pc' = "raised"

\* utils.py lines 359-370 and 438-449, temporal.py lines 114-121.
AggValidate ==
    /\ a_pc = "validate"
    /\ IF a_in.fn # "aggregate_temporal" /\ a_in.has_list /\ a_in.has_dir
       THEN AggRaise /\ UNCHANGED a_aggcheck                     \* RuntimeWarning
       ELSE IF AggcheckRaises(a_in.fn, a_in.agg)
       THEN AggRaise /\ UNCHANGED a_aggcheck                     \* ValueError
       ELSE /\ a_aggcheck' = Aggcheck(a_in.fn, a_in.agg)
            /\ a_pc' = IF a_in.fn = "aggregate_temporal" THEN "group" ELSE "meta"
    /\ UNCHANGED <<a_in, a_meta, a_read, a_plan, a_out>>
    /\ UNCHANGED <<LogVars, QueryVars, CombineVars, ReprojVars, ExtVars>>

\* utils.py lines 378-382 and 457-461: the profile of file_list[0].
AggMeta ==
    /\ a_pc = "meta"
    /\ LET files == FileList(a_in)
       IN  IF (~a_in.has_list /\ ~a_in.has_dir) \/ files = <<>>
           THEN AggRaise /\ UNCHANGED <<a_meta, a_read>>         \* TypeError, IndexError
           ELSE IF AggFiles[files[1]].kind = "missing"
           THEN AggRaise /\ UNCHANGED <<a_meta, a_read>>         \* RasterioIOError
           ELSE /\ a_meta' = [height |-> Len(AggFiles[files[1]].bands[1]),
                              width |-> Len(AggFiles[files[1]].bands[1][1]),
                              count |-> Len(AggFiles[files[1]].bands)]
                /\ a_read' = <<files[1]>>
                /\ a_pc' = "read"
    /\ UNCHANGED <<a_in, a_aggcheck, a_plan, a_out>>
    /\ UNCHANGED <<LogVars, QueryVars, CombineVars, ReprojVars, ExtVars>>

\* aggregate_multiband lines 467-471: the files read until data[c, :, :]
\* raises for a file with fewer than three bands.
RECURSIVE ThreeBandPrefix(_)
ThreeBandPrefix(files) ==
    IF files = <<>> THEN <<>>
    ELSE IF Len(AggFiles[Head(files)].bands) < 3 THEN <<Head(files)>>
    ELSE <<Head(files)>> \o ThreeBandPrefix(Tail(files))

\* utils.py lines 384-401 and 463-489: every file is read and the statistics
\* are computed.
AggReadAll ==
    /\ a_pc = "read"
    /\ LET files == FileList(a_in)
           readable == Readable(files)
       IN  IF Len(readable) < Len(files)
           THEN AggRaise /\ a_read' = a_read \o readable /\ UNCHANGED a_plan
           ELSE IF a_in.fn = "aggregate_rasters"
           THEN /\ a_read' = a_read \o files
                /\ IF Stackable(ExtendAll(files))
                   THEN /\ a_plan' = RastersPlan(files, a_aggcheck, a_in.outfile)
                        /\ a_pc' = "write"
                   ELSE AggRaise /\ UNCHANGED a_plan             \* ValueError
           ELSE IF \E k \in 1..Len(files) : Len(AggFiles[files[k]].bands) < 3
           THEN /\ AggRaise                                      \* IndexError
                /\ a_read' = a_read \o ThreeBandPrefix(files)
                /\ UNCHANGED a_plan
           ELSE /\ a_read' = a_read \o files
                /\ a_plan' = MultibandPlan(files, a_aggcheck, a_in.outfile)
                /\ a_pc' = "write"
    /\ UNCHANGED <<a_in, a_aggcheck, a_meta, a_out>>
    /\ UNCHANGED <<LogVars, QueryVars, CombineVars, ReprojVars, ExtVars>>

\* temporal.py lines 124-150: the grouping and the statistics of every group.
AggGroup ==
    /\ a_pc = "group"
    /\ IF PeriodRaises(a_in.xdr, a_in.period)
       THEN AggRaise /\ UNCHANGED a_plan                         \* ValueError
       ELSE /\ a_plan' = TemporalPlan(a_in.xdr, a_in.period, a_aggcheck, a_in.outfile)
            /\ a_pc' = "write"
    /\ UNCHANGED <<a_in, a_aggcheck, a_meta, a_read, a_out>>
    /\ UNCHANGED <<LogVars, QueryVars, CombineVars, ReprojVars, ExtVars>>

\* A raster file: its name and the pixels of band 1, or no pixels when the
\* file was created and the write raised.
Written(p) == [name |-> p.name, a |-> p.a, tag |-> p.tag, data |-> p.arr.data]
Created(p) == [name |-> p.name, a |-> p.a, tag |-> p.tag, data |-> <<>>]

\* dst.write(array, 1) takes a 2-d array of the shape of the dataset.
WriteAccepts(meta, arr) ==
    arr.ndim = 2 /\ Shape(arr) = <<meta.height, meta.width>>

\* utils.py lines 404-409 and 491-504, temporal.py lines 157-170: the next
\* output file is written.
AggWrite ==
    /\ a_pc = "write"
    /\ Len(a_out) < Len(a_plan)
    /\ LET p == a_plan[Len(a_out) + 1]
       IN  IF a_in.fn = "aggregate_temporal" \/ WriteAccepts(a_meta, p.arr)
           THEN a_out' = Append(a_out, Written(p)) /\ UNCHANGED a_pc
           ELSE a_out' = Append(a_out, Created(p)) /\ AggRaise   \* ValueError
    /\ UNCHANGED <<a_in, a_aggcheck, a_meta, a_read, a_plan>>
    /\ UNCHANGED <<LogVars, QueryVars, CombineVars, ReprojVars, ExtVars>>

\* The return of the lists of what was written.
AggReturn ==
    /\ a_pc = "write"
    /\ Len(a_out) = Len(a_plan)
    /\ a_pc' = "returned"
    /\ UNCHANGED <<a_in, a_aggcheck, a_meta, a_read, a_plan, a_out>>
    /\ UNCHANGED <<LogVars, QueryVars, CombineVars, ReprojVars, ExtVars>>

AggNext == AggValidate \/ AggMeta \/ AggReadAll \/ AggGroup \/ AggWrite \/ AggReturn

AggSpecInit == AggInit /\ LogIdle /\ QueryIdle /\ CombineIdle /\ ReprojIdle /\ ExtIdle

AggSpec == AggSpecInit /\ [][AggNext]_vars

(***************************************************************************)
(* Claims about the reducers, checked under AggSpec.                       *)
(***************************************************************************)
SingleBandSameShape(files) ==
    /\ files # <<>>
    /\ \A k \in 1..Len(files) :
          /\ AggFiles[files[k]].kind = "raster"
          /\ Len(AggFiles[files[k]].bands) = 1
          /\ Len(AggFiles[files[k]].bands[1]) = Len(AggFiles[files[1]].bands[1])
          /\ Len(AggFiles[files[k]].bands[1][1]) = Len(AggFiles[files[1]].bands[1][1])

PixelStat(files, a, r, c) ==
    Stat(a, [k \in 1..Len(files) |-> AggFiles[files[k]].bands[1][r][c]])

\* C8: aggregate_rasters over same-shape single-band rasters ends with, for
\* each requested statistic, a written raster of the inputs' height and
\* width whose pixel (r, c) is that statistic of the inputs' pixels (r, c).
C8_PerPixelStatistic ==
    (/\ a_in.fn = "aggregate_rasters"
     /\ a_pc \in {"returned", "raised"}
     /\ ~(a_in.has_list /\ a_in.has_dir)
     /\ (a_in.has_list \/ a_in.has_dir)
     /\ SingleBandSameShape(FileList(a_in)))
    => LET files == FileList(a_in)
           h == Len(AggFiles[files[1]].bands[1])
           w == Len(AggFiles[files[1]].bands[1][1])
       IN  /\ a_pc = "returned"
           /\ Len(a_out) = Len(a_aggcheck)
           /\ \A i \in 1..Len(a_out) :
                 /\ a_out[i].a = a_aggcheck[i]
                 /\ Len(a_out[i].data) = h
                 /\ \A r \in 1..h :
                       /\ Len(a_out[i].data[r]) = w
                       /\ \A c \in 1..w :
                             a_out[i].data[r][c] = PixelStat(files, a_out[i].a, r, c)

\* C9: a call whose agg list holds a name outside the function's supported
\* set raises at validation: it opens no raster, writes no file and does
\* not return.
C9_UnsupportedAggIsFatal ==
    (/\ a_pc # "validate"
     /\ \E i \in 1..Len(a_in.agg) : a_in.agg[i] \notin AggTypes(a_in.fn))
    => /\ a_pc = "raised"
       /\ a_read = <<>>
       /\ a_out = <<>>

\* The arrays of the layers of a cube at the given positions, in time order.
LayersOf(xdr, members) ==
    LET ks == SetToSortedSeq(members)
    IN  [k \in 1..Len(ks) |-> Arr2(xdr[ks[k]].data)]

\* The groups of n time steps taken p at a time, the last one holding the rest.
ChunkGroups(n, p) ==
    [g \in 1..((n + p - 1) \div p) |-> {k \in 1..n : (k - 1) \div p = g - 1}]

\* C11: with an integer period p the outputs of aggregate_temporal are, for
\* every kept aggregation, the statistics of the groups of p consecutive
\* time steps (the last group holding the rest), whatever the spacing of the
\* time stamps and whether or not p divides the number of steps.
C11_IntegerPeriodCountsSteps ==
    (/\ a_in.fn = "aggregate_temporal"
     /\ a_in.period.kind = "int"
     /\ a_in.period.val > 0
     /\ a_pc \in {"write", "returned", "raised"})
    => LET cg == ChunkGroups(Len(a_in.xdr), a_in.period.val)
           ng == Len(cg)
       IN  /\ a_pc # "raised"
           /\ Len(a_plan) = Len(a_aggcheck) * ng
           /\ \A i \in 1..Len(a_plan) :
                 a_plan[i].arr =
                     Reduce0(LayersOf(a_in.xdr, cg[((i - 1) % ng) + 1]),
                             a_aggcheck[((i - 1) \div ng) + 1])

YearsOf(xdr) == {xdr[k].year : k \in 1..Len(xdr)}

AllSupported(fn, agg) == \A i \in 1..Len(agg) : agg[i] \in AggTypes(fn)

\* C12: aggregate_temporal with period 'yearly' and supported aggregations
\* returns after writing exactly one file per (calendar year of the cube,
\* requested aggregation) pair, named prefix_aggregation_year.tif, and the
\* returned lists hold one aligned entry per write.
C12_YearlyOneFilePerYearAndAgg ==
    (/\ a_in.fn = "aggregate_temporal"
     /\ a_in.period = [kind |-> "str", val |-> "yearly"]
     /\ AllSupported(a_in.fn, a_in.agg)
     /\ a_pc \in {"returned", "raised"})
    => LET years == YearsOf(a_in.xdr)
           aggs == {a_in.agg[i] : i \in 1..Len(a_in.agg)}
           names == {a_out[i].name : i \in 1..Len(a_out)}
       IN  /\ a_pc = "returned"
           /\ names = {a_in.outfile \o "_" \o a \o "_" \o ToString(y) \o ".tif" :
                          a \in aggs, y \in years}
           /\ Cardinality(names) = Cardinality(years) * Cardinality(aggs)
           /\ Len(a_out) = Cardinality(years) * Len(a_in.agg)
           /\ \A i \in 1..Len(a_out) :
                 /\ a_out[i].a \in aggs
                 /\ a_out[i].name =
                        a_in.outfile \o "_" \o a_out[i].a \o "_" \o a_out[i].tag \o ".tif"

\* C12 witness: the cube of 24 monthly layers of two calendar years, two
\* statistics requested, four files written and returned.
C12_Witness ==
    /\ a_in.fn = "aggregate_temporal"
    /\ a_in.period = [kind |-> "str", val |-> "yearly"]
    /\ a_in.xdr = MonthlyCube
    /\ a_in.agg = <<"mean", "sum">>
    /\ a_pc = "returned"
    /\ Len(a_out) = 4
    /\ {a_out[i].tag : i \in 1..Len(a_out)} = {"2020", "2021"}

ThreeBandSameShape(files) ==
    /\ files # <<>>
    /\ \A k \in 1..Len(files) :
          /\ AggFiles[files[k]].kind = "raster"
          /\ Len(AggFiles[files[k]].bands) = 3
          /\ \A b \in 1..3 :
                /\ Len(AggFiles[files[k]].bands[b]) = Len(AggFiles[files[1]].bands[1])
                /\ Len(AggFiles[files[k]].bands[b][1])
                       = Len(AggFiles[files[1]].bands[1][1])

BandStat(files, a, b, r, c) ==
    Stat(a, [k \in 1..Len(files) |-> AggFiles[files[k]].bands[b][r][c]])

\* C17: aggregate_multiband over three-band rasters of one shape returns
\* after writing one raster per (band 0..2, supported requested statistic),
\* named prefix_statistic_channel_band.tif and holding that statistic of that
\* band across the files; entry i of the three returned lists names the
\* file, the band and the statistic of the same write.
C17_OneFilePerBandAndStatistic ==
    (/\ a_in.fn = "aggregate_multiband"
     /\ a_pc \in {"returned", "raised"}
     /\ ~(a_in.has_list /\ a_in.has_dir)
     /\ (a_in.has_list \/ a_in.has_dir)
     /\ ThreeBandSameShape(FileList(a_in)))
    => LET files == FileList(a_in)
           aggs == {a_in.agg[i] : i \in {j \in 1..Len(a_in.agg) :
                                            a_in.agg[j] \in AggTypes(a_in.fn)}}
           nagg == Cardinality({j \in 1..Len(a_in.agg) :
                                   a_in.agg[j] \in AggTypes(a_in.fn)})
           names == {a_out[i].name : i \in 1..Len(a_out)}
           h == Len(AggFiles[files[1]].bands[1])
           w == Len(AggFiles[files[1]].bands[1][1])
       IN  /\ a_pc = "returned"
           /\ Len(a_out) = 3 * nagg
           /\ names = {a_in.outfile \o "_" \o a \o "_channel_" \o ToString(b) \o ".tif" :
                          a \in aggs, b \in 0..2}
           /\ Cardinality(names) = 3 * Cardinality(aggs)
           /\ \A i \in 1..Len(a_out) :
                 /\ a_out[i].a \in aggs
                 /\ a_out[i].tag \in {"0", "1", "2"}
                 /\ a_out[i].name = a_in.outfile \o "_" \o a_out[i].a
                                        \o "_channel_" \o a_out[i].tag \o ".tif"
                 /\ LET b == CHOOSE x \in 0..2 : ToString(x) = a_out[i].tag
                    IN  /\ Len(a_out[i].data) = h
                        /\ \A r \in 1..h :
                              /\ Len(a_out[i].data[r]) = w
                              /\ \A c \in 1..w :
                                    a_out[i].data[r][c]
                                        = BandStat(files, a_out[i].a, b + 1, r, c)

\* C17 witness: two three-band files, mean and sum requested, six files
\* written and returned.
C17_Witness ==
    /\ a_in.fn = "aggregate_multiband"
    /\ FileList(a_in) = <<"rgb1.tif", "rgb2.tif">>
    /\ a_in.agg = <<"mean", "sum">>
    /\ a_pc = "returned"
    /\ Len(a_out) = 6
    /\ {<<a_out[i].tag, a_out[i].a>> : i \in 1..6}
          = {"0", "1", "2"} \X {"mean", "sum"}

\* C21: the outputs of one aggregate_temporal call are named
\* outfile_aggregation_label.tif, and two outputs that differ in their
\* group or in their aggregation have different names.
C21_DistinctPairsDistinctNames ==
    (/\ a_in.fn = "aggregate_temporal"
     /\ a_pc \in {"write", "returned"}
     /\ a_aggcheck # <<>>)
    => LET ng == Len(a_plan) \div Len(a_aggcheck)
       IN  /\ \A i \in 1..Len(a_out) :
                 a_out[i].name =
                     a_in.outfile \o "_" \o a_out[i].a \o "_" \o a_out[i].tag \o ".tif"
           /\ \A i, j \in 1..Len(a_out) :
                 (\/ (i - 1) % ng # (j - 1) % ng
                  \/ a_out[i].a # a_out[j].a)
                 => a_out[i].name # a_out[j].name

\* C20: aggregate_temporal called with a period that is neither 'yearly',
\* 'monthly' nor an int raises once validation is over, with no aggregation
\* computed and no output written.
C20_UnsupportedPeriodIsFatal ==
    (/\ a_in.fn = "aggregate_temporal"
     /\ \/ a_in.period.kind = "float"
        \/ (a_in.period.kind = "str" /\ a_in.period.val \notin {"yearly", "monthly"})
     /\ a_pc \notin {"validate", "group"})
    => /\ a_pc = "raised"
       /\ a_plan = <<>>
       /\ a_out = <<>>

\* C20 witness: the calls with period 'weekly' and with a float period have
\* raised with nothing computed or written.
C20_Witness ==
    /\ a_in.fn = "aggregate_temporal"
    /\ a_in.period \in {[kind |-> "str", val |-> "weekly"],
                         [kind |-> "float", val |-> 2]}
    /\ a_in.agg = <<"mean">>
    /\ a_pc = "raised"
    /\ a_plan = <<>>
    /\ a_out = <<>>

(***************************************************************************)
(* The temporal stacking: temporal.py, combine_rasters_temporal.           *)
(*                                                                         *)
(* A raster opened by rioxarray has the coordinates band, y and x, and the *)
(* attribute long_name: a tuple of one label per band of a multi-band      *)
(* file, a string for a single-band file.  A band maps (y, x) to <<v>>;    *)
(* <<>> stands for NaN.                                                    *)
(***************************************************************************)
Grid(ys, xs, v) == [yx \in ys \X xs |-> <<v>>]

Xds(ys, xs, bands, long_name) ==
    [kind |-> "raster", ys |-> ys, xs |-> xs, bands |-> bands, long_name |-> long_name]

CombinePaths == {"rain_2017.tif", "rain_2018.tif", "rain_wide.tif", "rain_one.tif", "gone.tif"}

CombineFiles ==
    [p \in CombinePaths |->
        CASE p = "rain_2017.tif" ->
                Xds({1, 2}, {1, 2}, <<Grid({1, 2}, {1, 2}, 1), Grid({1, 2}, {1, 2}, 2)>>,
                    [kind |-> "tuple", val |-> <<"2017-01-01", "2017-01-02">>])
          [] p = "rain_2018.tif" ->
                Xds({1, 2}, {1, 2}, <<Grid({1, 2}, {1, 2}, 3), Grid({1, 2}, {1, 2}, 4)>>,
                    [kind |-> "tuple", val |-> <<"2018-01-01", "2018-01-02">>])
          [] p = "rain_wide.tif" ->
                Xds({1, 2}, {1, 2, 3},
                    <<Grid({1, 2}, {1, 2, 3}, 5), Grid({1, 2}, {1, 2, 3}, 6)>>,
                    [kind |-> "tuple", val |-> <<"2019-01-01", "2019-01-02">>])
          [] p = "rain_one.tif" ->
                Xds({1, 2}, {1, 2}, <<Grid({1, 2}, {1, 2}, 7)>>,
                    [kind |-> "str", val |-> <<"2020-01-01">>])
          [] OTHER -> Missing]

\* The coordinates and the attributes of an opened raster.
XdsCoords == {"band", "y", "x", "spatial_ref"}
XdsAttrs == {"long_name", "scale_factor", "add_offset"}

\* The pixel shape (height, width) of a raster.
PixelShape(x) == <<Cardinality(x.ys), Cardinality(x.xs)>>

\* xr.concat(array_list, channel_name): the bands of all arrays in order, on
\* the outer join of the arrays' y and x coordinates; a cell no array covers
\* is NaN.
ConcatOuterJoin(list) ==
    LET ys == UNION {list[k].ys : k \in 1..Len(list)}
        xs == UNION {list[k].xs : k \in 1..Len(list)}
        Pad(x, band) ==
            [yx \in ys \X xs |->
                IF yx[1] \in x.ys /\ yx[2] \in x.xs THEN band[yx] ELSE <<>>]
        RECURSIVE Layers(_)
        Layers(k) ==
            IF k > Len(list) THEN <<>>
            ELSE [b \in 1..Len(list[k].bands) |-> Pad(list[k], list[k].bands[b])]
                 \o Layers(k + 1)
    IN  [ys |-> ys, xs |-> xs, layers |-> Layers(1)]

CombineInputs ==
    { [file_list |-> fl, channel_name |-> ch, attribute_name |-> at] :
        fl \in SeqsOfLen(CombinePaths, 0..MaxCombine),
        ch \in {"band", "time"}, at \in {"long_name", "units"} }

CombineInit ==
    /\ c_in \in CombineInputs
    /\ c_pc = "loop"
    /\ c_list = <<>>
    /\ c_attrs = <<>>
    /\ c_xdr = <<>>

\* Lines 52-70, one pass of the loop: the file is opened, the channel and the
\* attribute are looked up, the array and its time labels are collected.
CombineOpen ==
    /\ c_pc = "loop"
    /\ Len(c_list) < Len(c_in.file_list)
    /\ LET xds == CombineFiles[c_in.file_list[Len(c_list) + 1]]
       IN  IF \/ xds.kind = "missing"                            \* RasterioIOError
              \/ c_in.channel_name \notin XdsCoords              \* ValueError
              \/ c_in.attribute_name \notin XdsAttrs             \* ValueError
           THEN c_pc' = "raised" /\ UNCHANGED <<c_list, c_attrs>>
           ELSE IF xds.long_name.kind # "tuple"                  \* TypeError: tuple + str
           THEN c_pc' = "raised" /\ c_list' = Append(c_list, xds) /\ UNCHANGED c_attrs
           ELSE /\ c_list' = Append(c_list, xds)
                /\ c_attrs' = c_attrs \o xds.long_name.val
                /\ c_pc' = IF Len(c_list') = Len(c_in.file_list) THEN "concat" ELSE "loop"
    /\ UNCHANGED <<c_in, c_xdr>>
    /\ UNCHANGED <<LogVars, QueryVars, AggVars, ReprojVars, ExtVars>>

\* Lines 73-80: the arrays are concatenated, the time labels become the
\* coordinate, and the cube is returned.  An empty list makes xr.concat raise.
CombineConcat ==
    /\ \/ c_pc = "concat"
       \/ c_pc = "loop" /\ c_in.file_list = <<>>
    /\ IF c_list = <<>>
       THEN c_pc' = "raised" /\ UNCHANGED c_xdr
       ELSE /\ c_xdr' = << [time |-> c_attrs] @@ ConcatOuterJoin(c_list) >>
            /\ c_pc' = "returned"
    /\ UNCHANGED <<c_in, c_list, c_attrs>>
    /\ UNCHANGED <<LogVars, QueryVars, AggVars, ReprojVars, ExtVars>>

CombineNext == CombineOpen \/ CombineConcat

CombineSpecInit == CombineInit /\ LogIdle /\ QueryIdle /\ AggIdle /\ ReprojIdle /\ ExtIdle

CombineSpec == CombineSpecInit /\ [][CombineNext]_vars

(***************************************************************************)
(* Claims about the temporal stacking, checked under CombineSpec.          *)
(***************************************************************************)
\* C10: a call given files whose pixel shapes differ ends by raising and
\* returns no cube.
C10_ShapeMismatchRaises ==
    (/\ c_pc \in {"returned", "raised"}
     /\ \E j, k \in 1..Len(c_in.file_list) :
           /\ CombineFiles[c_in.file_list[j]].kind = "raster"
           /\ CombineFiles[c_in.file_list[k]].kind = "raster"
           /\ PixelShape(CombineFiles[c_in.file_list[j]])
                  # PixelShape(CombineFiles[c_in.file_list[k]]))
    => (c_pc = "raised" /\ c_xdr = <<>>)

(***************************************************************************)
(* The reprojection: utils.py, reproj_rastermatch and reproj_raster.       *)
(*                                                                         *)
(* Coordinates and resolutions are integers in a unit that divides them    *)
(* all, so a float quotient of the code is an exact rational.  A CRS is    *)
(* given by the ground length of one of its units along x and along y, and *)
(* the transformation between two CRSs scales each axis by the ratio of    *)
(* these lengths.                                                          *)
(***************************************************************************)
CrsNames == {"EPSG:4326", "EPSG:3577"}

CrsUnit ==
    [c \in CrsNames |-> IF c = "EPSG:4326" THEN <<5, 6>> ELSE <<1, 1>>]

\* An opened dataset: crs, width, height, bounds (left, bottom, right, top)
\* and count, the number of its bands.
Dataset(crs, width, height, bounds, count) ==
    [kind |-> "raster", crs |-> crs, width |-> width, height |-> height,
     bounds |-> bounds, count |-> count]

ReprojPaths == {"in/dem_ll.tif", "in/rgb_ll.tif", "in/dem_m.tif", "in/gone.tif"}

ReprojFiles ==
    [p \in ReprojPaths |->
        CASE p = "in/dem_ll.tif" -> Dataset("EPSG:4326", 6, 6, <<0, 0, 6, 6>>, 1)
          [] p = "in/rgb_ll.tif" -> Dataset("EPSG:4326", 4, 2, <<10, 20, 18, 24>>, 3)
          [] p = "in/dem_m.tif" -> Dataset("EPSG:3577", 6, 4, <<0, 0, 6, 4>>, 1)
          [] OTHER -> Missing]

\* calculate_default_transform(src_crs, dst_crs, width, height, left, bottom,
\* right, top): the bounds, given in src_crs, are transformed to dst_crs; the
\* pixel size is the diagonal of the transformed extent divided by the
\* diagonal of the given pixel counts, and each returned dimension is
\* int(extent / pixel size + 0.5).  The extents dx and dy are kept up to a
\* common factor, which the quotients do not depend on.
calculate_default_transform(src_crs, dst_crs, width, height, bounds) ==
    LET dx == (bounds[3] - bounds[1]) * CrsUnit[src_crs][1] * CrsUnit[dst_crs][2]
        dy == (bounds[4] - bounds[2]) * CrsUnit[src_crs][2] * CrsUnit[dst_crs][1]
        pixels2 == width * width + height * height
        diag2 == dx * dx + dy * dy
        Dim(d) ==
            CHOOSE k \in 0..(width + height + 1) :
                /\ (k = 0 \/ (2 * k - 1) * (2 * k - 1) * diag2 <= 4 * d * d * pixels2)
                /\ 4 * d * d * pixels2 < (2 * k + 1) * (2 * k + 1) * diag2
    IN  [width |-> Dim(dx), height |-> Dim(dy)]

\* dst_kwargs: src.meta with crs, width, height and nodata replaced; the loop
\* over range(1, src.count + 1) reprojects every band onto it.
DstProfile(src, crs, dims, nodata) ==
    [crs |-> crs, width |-> dims.width, height |-> dims.height,
     count |-> src.count, nodata |-> nodata]

\* Lines 278-279 of reproj_raster.
WidthOut(bbox_out, resolution_out) ==
    IntOfQuotient(bbox_out[3] - bbox_out[1], resolution_out)

HeightOut(bbox_out, resolution_out) ==
    IntOfQuotient(bbox_out[4] - bbox_out[2], resolution_out)

\* The arguments the model draws from.
BboxChoices == { <<0, 0, 6, 6>>, <<0, 0, 3, 3>>, <<0, 0, 9, 5>>, <<10, 20, 18, 24>> }
ResolutionChoices == {1, 2, 3}

ReprojInputs ==
    { [fn |-> "reproj_raster", infile |-> f, bbox_out |-> b, resolution_out |-> r,
       crs_out |-> c, nodata |-> 0] :
        f \in ReprojPaths, b \in BboxChoices, r \in ResolutionChoices, c \in CrsNames }
    \cup
    { [fn |-> "reproj_rastermatch", infile |-> f, matchfile |-> m, nodata |-> 0] :
        f \in ReprojPaths, m \in ReprojPaths }

ReprojInit ==
    /\ r_in \in ReprojInputs
    /\ r_pc = "call"
    /\ r_req = <<>>
    /\ r_dst = <<>>

ReprojRaise == r_pc' = "raised" /\ r_dst' = <<>>

\* reproj_rastermatch(infile, matchfile, outfile, nodata), lines 215-257.
reproj_rastermatch ==
    /\ r_pc = "call"
    /\ r_in.fn = "reproj_rastermatch"
    /\ LET src == ReprojFiles[r_in.infile]
           match == ReprojFiles[r_in.matchfile]
       IN  IF src.kind = "missing" \/ match.kind = "missing"
           THEN ReprojRaise /\ UNCHANGED r_req                   \* RasterioIOError
           ELSE LET dims == calculate_default_transform(
                                src.crs, match.crs, match.width, match.height,
                                match.bounds)
                IN  /\ r_req' = <<match.width, match.height>>
                    /\ IF dims.width = 0 \/ dims.height = 0
                       THEN ReprojRaise                          \* no pixel to write
                       ELSE /\ r_dst' = DstProfile(src, match.crs, dims, r_in.nodata)
                            /\ r_pc' = "written"
    /\ UNCHANGED r_in
    /\ UNCHANGED <<LogVars, QueryVars, AggVars, CombineVars, ExtVars>>

\* reproj_raster(infile, outfile, bbox_out, resolution_out, crs_out, nodata),
\* lines 275-314.
reproj_raster ==
    /\ r_pc = "call"
    /\ r_in.fn = "reproj_raster"
    /\ LET src == ReprojFiles[r_in.infile]
           width_out == WidthOut(r_in.bbox_out, r_in.resolution_out)
           height_out == HeightOut(r_in.bbox_out, r_in.resolution_out)
       IN  IF src.kind = "missing"
           THEN ReprojRaise /\ UNCHANGED r_req                   \* RasterioIOError
           ELSE /\ r_req' = <<width_out, height_out>>
                /\ IF width_out = 0 \/ height_out = 0
                   THEN ReprojRaise                              \* no pixel to map
                   ELSE LET dims == calculate_default_transform(
                                        src.crs, r_in.crs_out, width_out, height_out,
                                        r_in.bbox_out)
                        IN  IF dims.width = 0 \/ dims.height = 0
                            THEN ReprojRaise
                            ELSE /\ r_dst' = DstProfile(src, r_in.crs_out, dims,
                                                        r_in.nodata)
                                 /\ r_pc' = "written"
    /\ UNCHANGED r_in
    /\ UNCHANGED <<LogVars, QueryVars, AggVars, CombineVars, ExtVars>>

ReprojNext == reproj_rastermatch \/ reproj_raster

ReprojSpecInit == ReprojInit /\ LogIdle /\ QueryIdle /\ AggIdle /\ CombineIdle /\ ExtIdle

ReprojSpec == ReprojSpecInit /\ [][ReprojNext]_vars

(***************************************************************************)
(* Claims about the reprojection, checked under ReprojSpec.                *)
(***************************************************************************)
\* round(n / d) of Python for positive n and d: to the nearest integer, a
\* tie to the even one.
RoundOfQuotient(n, d) ==
    LET q == n \div d
        r == n % d
    IN  IF 2 * r < d THEN q
        ELSE IF 2 * r > d THEN q + 1
        ELSE IF q % 2 = 0 THEN q ELSE q + 1

\* C18: reproj_raster of a raster that opens computes the width
\* round((right - left) / resolution) and the height
\* round((top - bottom) / resolution), and writes a raster of exactly that
\* width and height.
C18_OutputSizeIsRounded ==
    (/\ r_in.fn = "reproj_raster"
     /\ r_pc \in {"written", "raised"}
     /\ ReprojFiles[r_in.infile].kind = "raster")
    => LET w == RoundOfQuotient(r_in.bbox_out[3] - r_in.bbox_out[1],
                                r_in.resolution_out)
           h == RoundOfQuotient(r_in.bbox_out[4] - r_in.bbox_out[2],
                                r_in.resolution_out)
       IN  /\ r_pc = "written"
           /\ r_req = <<w, h>>
           /\ r_dst.width = w
           /\ r_dst.height = h

\* C19: reproj_rastermatch of a source and a reference that open writes a
\* raster with the reference's width, height and CRS and with every band of
\* the source, whether or not the source's CRS is the reference's.
C19_OutputMatchesReference ==
    (/\ r_in.fn = "reproj_rastermatch"
     /\ r_pc \in {"written", "raised"}
     /\ ReprojFiles[r_in.infile].kind = "raster"
     /\ ReprojFiles[r_in.matchfile].kind = "raster")
    => LET src == ReprojFiles[r_in.infile]
           match == ReprojFiles[r_in.matchfile]
       IN  /\ r_pc = "written"
           /\ r_dst.width = match.width
           /\ r_dst.height = match.height
           /\ r_dst.crs = match.crs
           /\ r_dst.count = src.count


(***************************************************************************)
(* The Earth Engine download: getdata_ee.py, collect.download and          *)
(* download_tif.                                                           *)
(***************************************************************************)
GeeImages == {"None", "Image", "ImageCollection"}      \* self.ee_image
GeeAois == {"Point", "Polygon"}                        \* self.aoi.getInfo()["type"]
GeeFormats == {"None", "tif", "png", "gif"}            \* out_format
GeeBands == {"None", "B4"}                             \* bands, self.bands
GeeDisk == {"absent", "old"}                           \* the file at fullpath

\* The object and the arguments of one call.  out_format and bands are the
\* values after lines 588-593 (taken from the config when there is one); the
\* flag overwrite is kept apart as the argument and the config entry.
GeeInputs ==
    [hasconfig : BOOLEAN, cfg_overwrite : BOOLEAN, arg_overwrite : BOOLEAN,
     ee_image : GeeImages, aoi : GeeAois, out_format : GeeFormats,
     bands : GeeBands, exists : GeeDisk]

\* Lines 588-593: overwrite after the config has been read.
Overwrite(inp) == IF inp.hasconfig THEN inp.cfg_overwrite ELSE inp.arg_overwrite

\* download_tif(image, region, path, scale, crs="EPSG:4326", overwrite=True):
\* the file at path, the requests sent and the value returned.
download_tif(image, disk, crs, overwrite) ==
    IF image = "Image"
    THEN IF disk # "absent" /\ overwrite
         THEN [disk |-> disk, reqs |-> <<>>, filenames |-> "image.tif"]
         ELSE [disk |-> "new", reqs |-> <<"download_ee_image">>,
               filenames |-> "image.tif"]
    ELSE [disk |-> disk, reqs |-> <<"download_ee_image_collection">>,
          filenames |-> "file_list"]

\* Line 663: download_tif(img, self.aoi, fullpath, scale, overwrite).  The
\* fifth positional argument is the parameter crs; the parameter overwrite
\* keeps its default, True.
DownloadTifCall(image, disk, overwrite) == download_tif(image, disk, overwrite, TRUE)

GeeInit ==
    /\ g_in \in GeeInputs
    /\ g_pc = "call"
    /\ g_disk = g_in.exists
    /\ g_reqs = <<>>
    /\ g_out = <<>>

\* collect.download.
download ==
    /\ g_pc = "call"
    /\ LET out_format == IF g_in.out_format = "None" THEN "tif" ELSE g_in.out_format
           Leave(pc) == g_pc' = pc /\ UNCHANGED <<g_disk, g_reqs, g_out>>
       IN  IF g_in.ee_image = "None" THEN Leave("returned")
           ELSE IF g_in.aoi = "Point" THEN Leave("returned")
           ELSE IF out_format \notin {"png", "jpg", "tif"} THEN Leave("raised")
           ELSE IF g_in.bands = "None" THEN Leave("returned")
           ELSE IF out_format \in {"tif", "tiff"}
                THEN LET res == DownloadTifCall(g_in.ee_image, g_disk, Overwrite(g_in))
                     IN  /\ g_disk' = res.disk
                         /\ g_reqs' = res.reqs
                         /\ g_out' = <<res.filenames>>
                         /\ g_pc' = "returned"
                ELSE Leave("returned")
    /\ UNCHANGED g_in
    /\ UNCHANGED <<CoreVars, BufferVars, DepthVars, DemVars, WcsVars, HarvestVars>>

GeeNext == download

GeeSpecInit ==
    GeeInit /\ CoreIdle /\ BufferIdle /\ DepthIdle /\ DemIdle /\ WcsIdle /\ HarvestIdle

GeeSpec == GeeSpecInit /\ [][GeeNext]_vars

\* The call reached the GeoTIFF download of a single image.
SingleImageTif(inp) ==
    /\ inp.ee_image = "Image"
    /\ inp.aoi = "Polygon"
    /\ inp.out_format \in {"None", "tif"}
    /\ inp.bands # "None"

\* C22: collect.download honours overwrite for a single-image GeoTIFF: with
\* overwrite False a file that exists is kept and no download is requested,
\* with overwrite True the image is requested again and the file replaced.
C22_OverwriteFlagHonoured ==
    (g_pc = "returned" /\ SingleImageTif(g_in) /\ g_in.exists = "old") =>
        IF Overwrite(g_in)
        THEN g_reqs = <<"download_ee_image">> /\ g_disk = "new"
        ELSE g_reqs = <<>> /\ g_disk = "old"


(***************************************************************************)
(* The SLGA depth selection: getdata_slga.py, identifier2depthbounds and   *)
(* depth2identifier, as harvest.run chains them (harvest.py 269-280).      *)
(***************************************************************************)
depth_options == <<"0-5cm", "5-15cm", "15-30cm", "30-60cm", "60-100cm", "100-200cm">>
depth_intervals == <<0, 5, 15, 30, 60, 100, 200>>

DepthOptions == {depth_options[i] : i \in 1..Len(depth_options)}

\* The lists of depths the settings may hold: any options, and an entry that
\* is no option.  The code reads the list only through `in` and len, so a list
\* without repetition is modelled by the set of its entries.
DepthChoices == (SUBSET (DepthOptions \cup {"200-300cm"})) \ {{}}

\* Lines 283-292: the options that are in depths, by position.
SelectedOptions(depths) == {i \in 1..Len(depth_options) : depth_options[i] \in depths}

\* Min(S), Max(S) of a non-empty set of integers.
MinOf(S) == CHOOSE x \in S : \A y \in S : x <= y
MaxOf(S) == CHOOSE x \in S : \A y \in S : y <= x

\* Line 292: the assert fails when some entry of depths is no option.
DepthAssertFails(depths) == Cardinality(SelectedOptions(depths)) # Cardinality(depths)

\* identifier2depthbounds(depths): depth_min is the lower bound of the first
\* option found, depth_max the upper bound of the last one.
identifier2depthbounds(depths) ==
    LET sel == SelectedOptions(depths)
    IN  <<depth_intervals[MinOf(sel)], depth_intervals[MaxOf(sel) + 1]>>

\* depth2identifier(depth_min, depth_max): every interval that lies within
\* [depth_min, depth_max], with its three identifiers and its two bounds.
IntervalsWithin(depth_min, depth_max) ==
    SetToSortedSeq({i \in 1..(Len(depth_intervals) - 1) :
        depth_min <= depth_intervals[i] /\ depth_max >= depth_intervals[i + 1]})

depth2identifier(depth_min, depth_max) ==
    LET sel == IntervalsWithin(depth_min, depth_max)
    IN  [identifiers         |-> [k \in 1..Len(sel) |-> ToString(3 * (sel[k] - 1) + 1)],
         identifiers_ci_5pc  |-> [k \in 1..Len(sel) |-> ToString(3 * (sel[k] - 1) + 3)],
         identifiers_ci_95pc |-> [k \in 1..Len(sel) |-> ToString(3 * (sel[k] - 1) + 2)],
         depths_lower        |-> [k \in 1..Len(sel) |-> depth_intervals[sel[k]]],
         depths_upper        |-> [k \in 1..Len(sel) |-> depth_intervals[sel[k] + 1]]]

DepthInit ==
    /\ d_in \in DepthChoices
    /\ d_pc = "selected"
    /\ d_bounds = <<>>
    /\ d_ids = <<>>

\* harvest.py 269-271: depth_min, depth_max = identifier2depthbounds(...).
DepthBounds ==
    /\ d_pc = "selected"
    /\ IF DepthAssertFails(d_in)
       THEN d_pc' = "raised" /\ UNCHANGED d_bounds                \* AssertionError
       ELSE d_pc' = "bounds" /\ d_bounds' = identifier2depthbounds(d_in)
    /\ UNCHANGED <<d_in, d_ids>>
    /\ UNCHANGED <<CoreVars, GeeVars, BufferVars, DemVars, WcsVars, HarvestVars>>

\* getdata_slga.py 353-359: depth2identifier(depth_min, depth_max) inside
\* get_slga_layers.
DepthIdentifiers ==
    /\ d_pc = "bounds"
    /\ d_ids' = depth2identifier(d_bounds[1], d_bounds[2])
    /\ d_pc' = "identifiers"
    /\ UNCHANGED <<d_in, d_bounds>>
    /\ UNCHANGED <<CoreVars, GeeVars, BufferVars, DemVars, WcsVars, HarvestVars>>

DepthNext == DepthBounds \/ DepthIdentifiers

DepthSpecInit ==
    DepthInit /\ CoreIdle /\ GeeIdle /\ BufferIdle /\ DemIdle /\ WcsIdle /\ HarvestIdle

DepthSpec == DepthSpecInit /\ [][DepthNext]_vars

\* getdata_slga.py 370: the name of the k-th interval downloaded.
DepthName(ids, k) ==
    ToString(ids.depths_lower[k]) \o "-" \o ToString(ids.depths_upper[k]) \o "cm"

\* C27: for a non-empty set D of depth options, depth2identifier applied to
\* the bounds identifier2depthbounds(D) returns yields exactly the intervals
\* of D, none that was not selected.
C27_DepthRoundTrip ==
    (d_pc = "identifiers" /\ d_in \subseteq DepthOptions) =>
        {DepthName(d_ids, k) : k \in 1..Len(d_ids.identifiers)} = d_in


(***************************************************************************)
(* The headless run: harvest.py, run.                                      *)
(***************************************************************************)
HarvestSources == {"GEE", "DEA", "DEM", "Landscape", "Radiometric", "SILO", "SLGA"}

\* settings.target_sources: every source is absent or holds its layers.  SLGA
\* and SILO map a layer name to a list (of depths, of aggregations).
SourceSettings(s) ==
    CASE s = "GEE"         -> {SrcDict(<<"preprocess", "download">>, << <<>>, <<>> >>)}
      [] s = "DEA"         -> {SrcList(<<"landsat">>)}
      [] s = "DEM"         -> {SrcList(<<"DEM">>)}
      [] s = "Landscape"   -> {SrcList(<<"Slope">>)}
      [] s = "Radiometric" -> {SrcList(<<"radmap2019_grid_dose_terr_awags_rad_2019">>)}
      [] s = "SILO"        -> {SrcDict(<<"daily_rain">>, << <<"sum">> >>)}
      [] s = "SLGA"        -> {SrcDict(<<"Clay">>, << <<"0-5cm">> >>),
                               SrcDict(<<"Clay">>, << <<"0-5cm", "5-15cm">> >>)}

TargetSources == {ts \in [HarvestSources -> UNION {SourceSettings(s) \cup {Absent} : s \in HarvestSources}] :
                     \A s \in HarvestSources : ts[s] \in SourceSettings(s) \cup {Absent}}

HarvestInputs ==
    [infile : BOOLEAN, target_bbox : BOOLEAN, preview : BOOLEAN,
     target_sources : TargetSources]

\* Line 67: list_sources = list(settings.target_sources.keys()).
list_sources(inp) == {s \in HarvestSources : inp.target_sources[s].kind # "absent"}

\* The layer names of a source: the list itself, or the keys of the dict.
LayernamesOf(inp, s) ==
    IF inp.target_sources[s].kind = "list"
    THEN inp.target_sources[s].items
    ELSE inp.target_sources[s].keys

\* What one download function hands back: a list of file names, or an
\* exception.  False stands in a list for a layer that failed.
FalseValue == "False"
GotFiles(files) == [kind |-> "files", files |-> files]
Raised == [kind |-> "raise"]

\* The files get_slga_layers returns (getdata_slga.py 363-379): one per layer
\* and interval between depth_min and depth_max.
SlgaFiles(inp) ==
    LET depths == inp.target_sources["SLGA"].vals[1]
        bounds == identifier2depthbounds({depths[i] : i \in 1..Len(depths)})
        ids == depth2identifier(bounds[1], bounds[2])
    IN  [k \in 1..Len(ids.identifiers) |-> "SLGA_Clay_" \o DepthName(ids, k) \o ".tif"]

\* The outcomes of the download function of a source.
Outcomes(inp, s) ==
    CASE s = "GEE"         -> {GotFiles(<<"ee_image.tif">>), Raised}
      [] s = "DEA"         -> {GotFiles(<<>>), GotFiles(<<"landsat_2019-1-1.tif">>),
                               GotFiles(<<"landsat_2019-1-1.tif", "landsat_2019-2-1.tif">>),
                               Raised}
      [] s = "DEM"         -> {GotFiles(<<"DEM.tif">>), GotFiles(<<FalseValue>>), Raised}
      [] s = "Landscape"   -> {GotFiles(<<"Landscape_Slope.tif">>), Raised}
      [] s = "Radiometric" -> {GotFiles(<<>>), GotFiles(<<"radiometric_radmap.tif">>), Raised}
      [] s = "SILO"        -> {GotFiles(<<"daily_rain_2019.tif">>),
                               GotFiles(<<"daily_rain_2019.tif", "daily_rain_2020.tif">>),
                               Raised}
      [] s = "SLGA"        -> {GotFiles(SlgaFiles(inp)), Raised}

\* The raster files of a returned list.
RasterFiles(files) == {files[i] : i \in 1..Len(files)} \ {FalseValue}

\* update_logtable as harvest.run calls it: the table it returns.  The
\* keyword agfunctions defaults to [], loginfos is "downloaded".
LogAfter(df, filenames, layernames, datasource, st, titles, agf) ==
    LET n == Len(layernames)
        agfunctions == Agfunctions(agf, st, datasource, n)
        layertitles == Layertitles(titles, layernames, agfunctions)
        loginfos == Loginfos([kind |-> "str", val |-> "downloaded"], n)
    IN  IF Len(filenames) # n THEN df
        ELSE IF Len(agfunctions) # n THEN df
        ELSE IF DuplicateEntry(df, filenames, datasource) THEN df
        ELSE Concat(df, DataAdd(filenames, layernames, agfunctions, datasource,
                                layertitles, loginfos))

NoAgf == [kind |-> "list", val |-> <<>>]
StepOf(op, s) == [op |-> op, source |-> s]

HarvestInit ==
    /\ h_in \in HarvestInputs
    /\ h_pc = "checks"
    /\ h_loc = {}
    /\ h_log = <<>>
    /\ h_steps = <<>>
    /\ h_files = {}
    /\ h_res = <<>>
    /\ h_err = "none"

HarvestRaise(e) == h_pc' = "raised" /\ h_err' = e
HarvestOthers == <<CoreVars, GeeVars, BufferVars, DepthVars, DemVars, WcsVars>>

\* Lines 65-81: the quick checks.  points_available is assigned only when an
\* input file is given, aoi_available only when the bounding box is empty.
HarvestChecks ==
    /\ h_pc = "checks"
    /\ h_loc' = h_loc \cup (IF h_in.infile THEN {"points_available"} ELSE {})
                      \cup (IF ~h_in.target_bbox THEN {"aoi_available"} ELSE {})
    /\ h_steps' = IF "GEE" \in list_sources(h_in)
                  THEN Append(h_steps, StepOf("initialise", "GEE"))
                  ELSE h_steps
    /\ h_pc' = "points"
    /\ UNCHANGED <<h_in, h_log, h_files, h_res, h_err>>
    /\ UNCHANGED HarvestOthers

\* Lines 83-110: the points and the bounding box made from them.  Line 84
\* reads points_available, line 89 reads aoi_available when points_available
\* is true.
HarvestPoints ==
    /\ h_pc = "points"
    /\ IF "points_available" \notin h_loc
       THEN HarvestRaise("UnboundLocalError") /\ UNCHANGED h_loc
       ELSE IF "aoi_available" \notin h_loc
       THEN HarvestRaise("UnboundLocalError")
            /\ h_loc' = h_loc \cup {"gdfpoints", "longs", "lats"}
       ELSE /\ h_loc' = h_loc \cup {"gdfpoints", "longs", "lats", "download_log"}
            /\ h_pc' = "gee"
            /\ UNCHANGED h_err
    /\ UNCHANGED <<h_in, h_log, h_steps, h_files, h_res>>
    /\ UNCHANGED HarvestOthers

\* Lines 115-135: the Earth Engine block.  Only the message of line 117 is
\* under the test of line 116.  collect(config=...) reads
\* yaml_vals["target_sources"]["GEE"] (getdata_ee.py 153).
HarvestGEE ==
    /\ h_pc = "gee"
    /\ IF "GEE" \notin list_sources(h_in)
       THEN /\ h_steps' = Append(h_steps, StepOf("collect", "GEE"))
            /\ HarvestRaise("KeyError")
            /\ UNCHANGED <<h_loc, h_log, h_files>>
       ELSE \E o \in Outcomes(h_in, "GEE") :
            IF o.kind = "raise"
            THEN /\ h_steps' = h_steps \o <<StepOf("collect", "GEE"), StepOf("harvest", "GEE")>>
                 /\ HarvestRaise("Exception")
                 /\ UNCHANGED <<h_loc, h_log, h_files>>
            ELSE /\ h_steps' = h_steps \o <<StepOf("collect", "GEE"), StepOf("harvest", "GEE"),
                                            StepOf("update_logtable", "GEE")>>
                 /\ h_files' = h_files \cup RasterFiles(o.files)
                 /\ h_log' = LogAfter(h_log, o.files, <<"ee_image">>, "GEE",
                                      h_in.target_sources, <<>>,
                                      [kind |-> "str", val |-> "median"])
                 /\ h_loc' = h_loc \cup {"gee", "outfnames", "layernames"}
                 /\ h_pc' = "dea"
                 /\ UNCHANGED h_err
    /\ UNCHANGED <<h_in, h_res>>
    /\ UNCHANGED HarvestOthers

\* A block of the shape `if s in list_sources: files = get(...);
\* download_log = update_logtable(...)`, an exception of get(...) ending the run.
PlainBlock(s, op, titles, local, next) ==
    /\ IF s \notin list_sources(h_in)
       THEN h_pc' = next /\ UNCHANGED <<h_loc, h_log, h_steps, h_files, h_err>>
       ELSE \E o \in Outcomes(h_in, s) :
            IF o.kind = "raise"
            THEN /\ h_steps' = Append(h_steps, StepOf(op, s))
                 /\ HarvestRaise("Exception")
                 /\ UNCHANGED <<h_loc, h_log, h_files>>
            ELSE /\ h_steps' = h_steps \o <<StepOf(op, s), StepOf("update_logtable", s)>>
                 /\ h_files' = h_files \cup RasterFiles(o.files)
                 /\ h_log' = LogAfter(h_log, o.files, LayernamesOf(h_in, s), s,
                                      h_in.target_sources, titles, NoAgf)
                 /\ h_loc' = h_loc \cup {local}
                 /\ h_pc' = next
                 /\ UNCHANGED h_err
    /\ UNCHANGED <<h_in, h_res>>
    /\ UNCHANGED HarvestOthers

\* Lines 136-160.
HarvestDEA ==
    h_pc = "dea" /\ PlainBlock("DEA", "get_dea_layers", <<>>, "files_gee", "dem")

\* Lines 161-187: an exception of get_dem_layers is printed and files_dem
\* stays unassigned; line 175 reads it.
HarvestDEM ==
    /\ h_pc = "dem"
    /\ IF "DEM" \notin list_sources(h_in)
       THEN h_pc' = "landscape" /\ UNCHANGED <<h_loc, h_log, h_steps, h_files, h_err>>
       ELSE \E o \in Outcomes(h_in, "DEM") :
            IF o.kind = "raise"
            THEN /\ h_steps' = Append(h_steps, StepOf("get_dem_layers", "DEM"))
                 /\ HarvestRaise("UnboundLocalError")
                 /\ UNCHANGED <<h_loc, h_log, h_files>>
            ELSE IF o.files = <<FalseValue>>
            THEN /\ h_steps' = Append(h_steps, StepOf("get_dem_layers", "DEM"))
                 /\ h_loc' = h_loc \cup {"files_dem"}
                 /\ h_pc' = "landscape"
                 /\ UNCHANGED <<h_log, h_files, h_err>>
            ELSE /\ h_steps' = h_steps \o <<StepOf("get_dem_layers", "DEM"),
                                            StepOf("update_logtable", "DEM")>>
                 /\ h_files' = h_files \cup RasterFiles(o.files)
                 /\ h_log' = LogAfter(h_log, o.files, LayernamesOf(h_in, "DEM"), "DEM",
                                      h_in.target_sources, LayernamesOf(h_in, "DEM"), NoAgf)
                 /\ h_loc' = h_loc \cup {"files_dem"}
                 /\ h_pc' = "landscape"
                 /\ UNCHANGED h_err
    /\ UNCHANGED <<h_in, h_res>>
    /\ UNCHANGED HarvestOthers

\* Lines 188-209.
HarvestLandscape ==
    /\ h_pc = "landscape"
    /\ PlainBlock("Landscape", "get_landscape_layers",
                  [i \in 1..Len(LayernamesOf(h_in, "Landscape")) |->
                      "landscape_" \o LayernamesOf(h_in, "Landscape")[i]],
                  "files_ls", "radiometric")

\* Lines 210-237: an exception is printed; the log is updated only when
\* files_rd is among the locals.
HarvestRadiometric ==
    /\ h_pc = "radiometric"
    /\ IF "Radiometric" \notin list_sources(h_in)
       THEN UNCHANGED <<h_loc, h_log, h_steps, h_files>>
       ELSE \E o \in Outcomes(h_in, "Radiometric") :
            IF o.kind = "raise"
            THEN /\ h_steps' = Append(h_steps, StepOf("get_radiometric_layers", "Radiometric"))
                 /\ UNCHANGED <<h_loc, h_log, h_files>>
            ELSE /\ h_steps' = h_steps \o <<StepOf("get_radiometric_layers", "Radiometric"),
                                            StepOf("update_logtable", "Radiometric")>>
                 /\ h_files' = h_files \cup RasterFiles(o.files)
                 /\ h_log' = LogAfter(h_log, o.files, LayernamesOf(h_in, "Radiometric"),
                                      "Radiometric", h_in.target_sources,
                                      LayernamesOf(h_in, "Radiometric"), NoAgf)
                 /\ h_loc' = h_loc \cup {"files_rd"}
    /\ h_pc' = "silo"
    /\ UNCHANGED <<h_in, h_res, h_err>>
    /\ UNCHANGED HarvestOthers

\* Lines 238-265.
HarvestSILO ==
    h_pc = "silo" /\ PlainBlock("SILO", "get_SILO_raster", <<>>, "fnames_out_silo", "slga")

\* Lines 266-289.
HarvestSLGA ==
    h_pc = "slga" /\ PlainBlock("SLGA", "get_slga_layers", <<>>, "files_slga", "save")

\* Lines 291-293: download_log.to_csv(logfile).
HarvestSave ==
    /\ h_pc = "save"
    /\ h_steps' = Append(h_steps, StepOf("to_csv", "log"))
    /\ h_pc' = "extract"
    /\ UNCHANGED <<h_in, h_loc, h_log, h_files, h_res, h_err>>
    /\ UNCHANGED HarvestOthers

\* Lines 295-316: raster_query(longs, lats, rasters, titles) over the rows of
\* the log.
HarvestExtract ==
    /\ h_pc = "extract"
    /\ IF "points_available" \notin h_loc
       THEN HarvestRaise("UnboundLocalError") /\ UNCHANGED <<h_loc, h_res>>
       ELSE /\ h_res' = [rasters |-> [i \in 1..Len(h_log) |-> h_log[i].filename_out],
                         titles  |-> [i \in 1..Len(h_log) |-> h_log[i].layertitle]]
            /\ h_loc' = h_loc \cup {"rasters", "titles", "gdf"}
            /\ h_pc' = "preview"
            /\ UNCHANGED h_err
    /\ UNCHANGED <<h_in, h_log, h_steps, h_files>>
    /\ UNCHANGED HarvestOthers

\* Lines 318-321: plot_rasters(rasters, longs, lats, titles), return None.
HarvestPreview ==
    /\ h_pc = "preview"
    /\ IF h_in.preview /\ ~({"rasters", "longs", "lats", "titles"} \subseteq h_loc)
       THEN HarvestRaise("UnboundLocalError")
       ELSE h_pc' = "returned" /\ UNCHANGED h_err
    /\ UNCHANGED <<h_in, h_loc, h_log, h_steps, h_files, h_res>>
    /\ UNCHANGED HarvestOthers

HarvestNext ==
    \/ HarvestChecks \/ HarvestPoints \/ HarvestGEE \/ HarvestDEA \/ HarvestDEM
    \/ HarvestLandscape \/ HarvestRadiometric \/ HarvestSILO \/ HarvestSLGA
    \/ HarvestSave \/ HarvestExtract \/ HarvestPreview

HarvestSpecInit ==
    HarvestInit /\ CoreIdle /\ GeeIdle /\ BufferIdle /\ DepthIdle /\ DemIdle /\ WcsIdle

HarvestSpec == HarvestSpecInit /\ [][HarvestNext]_vars

\* C23: run never reads a local variable that has not been assigned; no
\* configuration and no outcome of the downloads ends in an unbound-variable
\* error.
C23_NoUnboundLocal == h_err # "UnboundLocalError"

\* C24: at the end of run every raster file a selected source returned is a
\* filename_out row of the log and a raster handed to the point extraction.
C24_ReturnedFilesAreLogged ==
    h_pc = "returned" =>
        /\ h_files \subseteq FilenameOutValues(h_log)
        /\ h_files \subseteq {h_res.rasters[i] : i \in 1..Len(h_res.rasters)}

\* C25: run contacts a source and logs files for it only if the source is a
\* key of settings.target_sources.
C25_OnlySelectedSourcesContacted ==
    \A i \in 1..Len(h_steps) :
        h_steps[i].source \in HarvestSources => h_steps[i].source \in list_sources(h_in)


(***************************************************************************)
(* The WCS downloads.  The files of outpath are a function from file name  *)
(* to content; the server is reachable ("up"), unreachable ("down"), or    *)
(* answers the capabilities request and fails the coverage request         *)
(* ("flaky").                                                              *)
(***************************************************************************)
MaxDemLayers == 2
MaxRuns == 2

Servers == {"up", "down", "flaky"}
NoDisk == <<>>
Exists(disk, f) == f \in DOMAIN disk                             \* os.path.exists
WriteFile(disk, f, c) ==
    [x \in DOMAIN disk \cup {f} |-> IF x = f THEN c ELSE disk[x]]
OldFiles(names) == [x \in names |-> "old"]

\* The state a layer-level function threads through its loop: the files, the
\* getCoverage requests sent, the list to return, the exception raised.
Fresh(disk) == [disk |-> disk, reqs |-> <<>>, out |-> <<>>, err |-> "none"]

(***************************************************************************)
(* getdata_dem.py: getwcs_dem, dem2slope, dem2aspect, get_dem_layers.      *)
(***************************************************************************)
DemFile == "DEM_SRTM_2026_11_05.tif"
NoneName == "None"

\* getwcs_dem(outpath, bbox, resolution, crs=crs): the state after the call
\* and the value returned.  The file name is built from the title the
\* server reports, so the server is asked before the existence test; every
\* exception of the try block ends in `return False`.
getwcs_dem(st, server, tag) ==
    IF server = "down"
    THEN [st |-> st, ret |-> FalseValue]
    ELSE IF Exists(st.disk, DemFile)
    THEN [st |-> st, ret |-> DemFile]
    ELSE IF server = "flaky"
    THEN [st |-> st, ret |-> FalseValue]
    ELSE [st |-> [st EXCEPT !.disk = WriteFile(st.disk, DemFile, tag),
                            !.reqs = Append(st.reqs, DemFile)],
          ret |-> DemFile]

\* Lines 254-255, 258-259, 263-264: a call of getwcs_dem, recorded, with
\* outfname_dem and dem_ok assigned.
CallGetwcsDem(st, server, tag) ==
    LET r == getwcs_dem(st, server, tag)
    IN  [r.st EXCEPT !.calls = Append(r.st.calls, r.ret),
                     !.outfname_dem = r.ret,
                     !.dem_ok = TRUE]

\* dem2slope(fname_dem), dem2aspect(fname_dem): os.path.basename(False)
\* raises TypeError; otherwise gdal writes the derived raster.
DemDerive(st, prefix, tag) ==
    IF st.outfname_dem = FalseValue
    THEN [st EXCEPT !.err = "TypeError"]
    ELSE [st EXCEPT !.disk = WriteFile(st.disk, prefix \o st.outfname_dem, "gdal " \o tag),
                    !.out = Append(st.out, prefix \o st.outfname_dem)]

\* Lines 252-269: the body of the loop for one layer name.
DemStep(st, layername, server, tag) ==
    IF layername = "DEM"
    THEN LET s1 == CallGetwcsDem(st, server, tag)
         IN  [s1 EXCEPT !.out = Append(s1.out, s1.outfname_dem)]
    ELSE IF layername = "Slope"
    THEN DemDerive(IF ~st.dem_ok THEN CallGetwcsDem(st, server, tag) ELSE st,
                   "Slope_", tag)
    ELSE IF layername = "Aspect"
    THEN DemDerive(IF ~st.dem_ok THEN CallGetwcsDem(st, server, tag) ELSE st,
                   "Aspect_", tag)
    ELSE [st EXCEPT !.out = Append(st.out, NoneName)]

\* Lines 250-251: the locals before the loop.
DemStart(disk) ==
    [disk |-> disk, reqs |-> <<>>, out |-> <<>>, err |-> "none",
     dem_ok |-> FALSE, outfname_dem |-> NoneName, calls |-> <<>>]

DemLayerNames == {"DEM", "Slope", "Aspect", "Hillshade"}

DemInit ==
    /\ m_in \in [layernames : SeqsOfLen(DemLayerNames, 0..MaxDemLayers),
                 server : Servers]
    /\ m_pc = "loop"
    /\ m_i = 0
    /\ m_st \in {DemStart(NoDisk), DemStart(OldFiles({DemFile}))}

DemOthers == <<CoreVars, GeeVars, BufferVars, DepthVars, WcsVars, HarvestVars>>

\* One iteration of `for layername in layernames`.
DemLayer ==
    /\ m_pc = "loop"
    /\ m_i < Len(m_in.layernames)
    /\ LET st == DemStep(m_st, m_in.layernames[m_i + 1], m_in.server, "run")
       IN  /\ m_st' = st
           /\ m_pc' = IF st.err # "none" THEN "raised" ELSE "loop"
    /\ m_i' = m_i + 1
    /\ UNCHANGED m_in
    /\ UNCHANGED DemOthers

\* Line 270: return outfnames.
DemReturn ==
    /\ m_pc = "loop"
    /\ m_i = Len(m_in.layernames)
    /\ m_pc' = "returned"
    /\ UNCHANGED <<m_in, m_i, m_st>>
    /\ UNCHANGED DemOthers

DemNext == DemLayer \/ DemReturn

DemSpecInit ==
    DemInit /\ CoreIdle /\ GeeIdle /\ BufferIdle /\ DepthIdle /\ WcsIdle /\ HarvestIdle

DemSpec == DemSpecInit /\ [][DemNext]_vars

\* C28: within one get_dem_layers call getwcs_dem is invoked at most once,
\* whatever the order and multiplicity of the layer names.
C28_DemFetchedAtMostOnce ==
    m_pc # "idle" => Len(m_st.calls) <= 1


(***************************************************************************)
(* The layer-level WCS functions: get_slga_layers, get_landscape_layers,   *)
(* get_dea_layers, get_dem_layers and get_radiometric_layers, each with    *)
(* the download function it calls.                                         *)
(***************************************************************************)
Report(st, f) == [st EXCEPT !.out = Append(st.out, f)]
Fetch(st, f, tag) ==
    [st EXCEPT !.disk = WriteFile(st.disk, f, tag), !.reqs = Append(st.reqs, f)]
Fail(st, e) == [st EXCEPT !.err = e]

\* getdata_slga.py get_wcsmap: returns False for a file that exists, else
\* asks the server; nothing catches an exception of the request.
get_wcsmap_slga(st, server, tag, outfname) ==
    IF Exists(st.disk, outfname) THEN st
    ELSE IF server # "up" THEN Fail(st, "ServiceException")
    ELSE Fetch(st, outfname, tag)

\* getdata_landscape.py get_wcsmap: the same, returning None.
get_wcsmap_landscape(st, server, tag, outfname) ==
    IF Exists(st.disk, outfname) THEN st
    ELSE IF server # "up" THEN Fail(st, "ServiceException")
    ELSE Fetch(st, outfname, tag)

\* getdata_dea.py get_wcsmap: True for a file that exists or was downloaded,
\* False when the request failed.
get_wcsmap_dea(st, server, tag, outfname) ==
    IF Exists(st.disk, outfname) THEN [st |-> st, ok |-> TRUE]
    ELSE IF server # "up" THEN [st |-> st, ok |-> FALSE]
    ELSE [st |-> Fetch(st, outfname, tag), ok |-> TRUE]

\* getdata_radiometric.py get_radiometric_image: get_times asks the server
\* first, outside the try block.
get_radiometric_image(st, server, tag, outfname) ==
    IF server = "down" THEN [st |-> Fail(st, "ServiceException"), ok |-> FALSE]
    ELSE IF Exists(st.disk, outfname) THEN [st |-> st, ok |-> TRUE]
    ELSE IF server # "up" THEN [st |-> st, ok |-> FALSE]
    ELSE [st |-> Fetch(st, outfname, tag), ok |-> TRUE]

\* get_slga_layers 363-410: per layer the files of the intervals, reported,
\* then (get_ci) the two confidence files of every interval, not reported.
SlgaCalls(inp) ==
    LET ids == depth2identifier(inp.depth_min, inp.depth_max)
        n == Len(ids.identifiers)
        Name(l, k) == "SLGA_" \o inp.layernames[l] \o "_" \o DepthName(ids, k)
        Main(l) == [k \in 1..n |-> [f |-> Name(l, k) \o ".tif", report |-> TRUE]]
        Ci(l) == Flatten([k \in 1..n |->
                    << [f |-> Name(l, k) \o "_5percentile.tif", report |-> FALSE],
                       [f |-> Name(l, k) \o "_95percentile.tif", report |-> FALSE] >>])
    IN  Flatten([l \in 1..Len(inp.layernames) |->
                    Main(l) \o (IF inp.get_ci THEN Ci(l) ELSE <<>>)])

\* get_landscape_layers 249-259.
LandscapeCalls(inp) ==
    [l \in 1..Len(inp.layernames) |->
        [f |-> "Landscape_" \o inp.layernames[l] \o ".tif", report |-> TRUE]]

\* get_dea_images 716-735: one file per date of the year, or the file of the
\* layer when the year has no date.
DeaCalls(inp) ==
    Flatten([l \in 1..Len(inp.layernames) |->
        IF inp.times = <<>>
        THEN << [f |-> inp.layernames[l] \o ".tif", report |-> TRUE] >>
        ELSE [d \in 1..Len(inp.times) |->
                [f |-> inp.layernames[l] \o "_" \o inp.times[d] \o ".tif",
                 report |-> TRUE]]])

\* get_radiometric_layers 182-183.
RadiometricCalls(inp) ==
    [l \in 1..Len(inp.layernames) |->
        [f |-> "radiometric_" \o inp.layernames[l] \o ".tif", report |-> TRUE]]

\* One download call inside the loop of a layer-level function, and what the
\* loop does with its result.
WcsCall(source, st, server, tag, c) ==
    CASE source = "SLGA" ->
            LET s1 == get_wcsmap_slga(st, server, tag, c.f)
            IN  IF s1.err = "none" /\ c.report THEN Report(s1, c.f) ELSE s1
      [] source = "Landscape" ->
            LET s1 == get_wcsmap_landscape(st, server, tag, c.f)
            IN  IF s1.err = "none" THEN Report(s1, c.f) ELSE s1
      [] source = "DEA" ->
            LET r == get_wcsmap_dea(st, server, tag, c.f)
            IN  IF r.ok THEN Report(r.st, c.f) ELSE r.st
      [] source = "Radiometric" ->
            LET r == get_radiometric_image(st, server, tag, c.f)
            IN  IF r.ok THEN Report(r.st, c.f) ELSE r.st

RECURSIVE WcsLoop(_, _, _, _, _)
WcsLoop(source, calls, st, server, tag) ==
    IF calls = <<>> \/ st.err # "none" THEN st
    ELSE WcsLoop(source, Tail(calls), WcsCall(source, st, server, tag, Head(calls)),
                 server, tag)

RECURSIVE DemLoop(_, _, _, _)
DemLoop(layernames, st, server, tag) ==
    IF layernames = <<>> \/ st.err # "none" THEN st
    ELSE DemLoop(Tail(layernames), DemStep(st, Head(layernames), server, tag),
                 server, tag)

\* The layer-level function of a source, from entry to return.
get_slga_layers(inp, disk, server, tag) ==
    WcsLoop("SLGA", SlgaCalls(inp), Fresh(disk), server, tag)

get_landscape_layers(inp, disk, server, tag) ==
    WcsLoop("Landscape", LandscapeCalls(inp), Fresh(disk), server, tag)

\* get_dea_images returns False when get_times fails (697-701), and
\* get_dea_layers adds that to a list (629): TypeError.
get_dea_layers(inp, disk, server, tag) ==
    IF server = "down" /\ inp.layernames # <<>>
    THEN Fail(Fresh(disk), "TypeError")
    ELSE WcsLoop("DEA", DeaCalls(inp), Fresh(disk), server, tag)

get_dem_layers(inp, disk, server, tag) ==
    LET st == DemLoop(inp.layernames, DemStart(disk), server, tag)
    IN  [disk |-> st.disk, reqs |-> st.reqs, out |-> st.out, err |-> st.err]

get_radiometric_layers(inp, disk, server, tag) ==
    WcsLoop("Radiometric", RadiometricCalls(inp), Fresh(disk), server, tag)

LayerDownload(inp, disk, server, tag) ==
    CASE inp.source = "SLGA"        -> get_slga_layers(inp, disk, server, tag)
      [] inp.source = "Landscape"   -> get_landscape_layers(inp, disk, server, tag)
      [] inp.source = "DEA"         -> get_dea_layers(inp, disk, server, tag)
      [] inp.source = "DEM"         -> get_dem_layers(inp, disk, server, tag)
      [] inp.source = "Radiometric" -> get_radiometric_layers(inp, disk, server, tag)

WcsInputs ==
    [source : {"SLGA"}, layernames : {<<"Clay">>}, depth_min : {0},
     depth_max : {5, 15}, get_ci : BOOLEAN]
    \cup [source : {"Landscape"}, layernames : SeqsOfLen({"Slope", "Aspect"}, 1..2)]
    \cup [source : {"DEA"}, layernames : {<<"landsat">>},
          times : {<<>>, <<"2019-1-1">>, <<"2019-1-1", "2019-2-1">>}]
    \cup [source : {"DEM"}, layernames : {<<"DEM">>, <<"Slope">>, <<"DEM", "Slope">>}]
    \cup [source : {"Radiometric"},
          layernames : SeqsOfLen({"radmap_dose", "radmap_k"}, 1..2)]

\* What a run into an empty directory with the server up asks for and
\* returns.
FirstDownload(inp) == LayerDownload(inp, NoDisk, "up", "run0")
WcsTargets(inp) == {FirstDownload(inp).reqs[i] : i \in 1..Len(FirstDownload(inp).reqs)}
WcsReported(inp) == {FirstDownload(inp).out[i] : i \in 1..Len(FirstDownload(inp).out)}

WcsInit ==
    /\ w_in \in WcsInputs
    /\ w_disk \in {OldFiles(S) : S \in SUBSET WcsTargets(w_in)}
    /\ w_runs = <<>>

\* One run of the layer-level function of the source.
WcsRun ==
    /\ Len(w_runs) < MaxRuns
    /\ \E server \in Servers :
          LET st == LayerDownload(w_in, w_disk, server,
                                  "run" \o ToString(Len(w_runs) + 1))
          IN  /\ w_disk' = st.disk
              /\ w_runs' = Append(w_runs,
                     [server |-> server, before |-> w_disk, after |-> st.disk,
                      reqs |-> st.reqs, out |-> st.out, err |-> st.err])
    /\ UNCHANGED w_in
    /\ UNCHANGED <<CoreVars, GeeVars, BufferVars, DepthVars, DemVars, HarvestVars>>

WcsNext == WcsRun

WcsSpecInit ==
    WcsInit /\ CoreIdle /\ GeeIdle /\ BufferIdle /\ DepthIdle /\ DemIdle /\ HarvestIdle

WcsSpec == WcsSpecInit /\ [][WcsNext]_vars

InSeq(x, sq) == \E i \in 1..Len(sq) : sq[i] = x

\* A run found every file on disk that a first download writes.
AllOnDisk(r, inp) == \A f \in WcsTargets(inp) : Exists(r.before, f)

\* C26: a WCS target file that exists when a run starts is not requested, keeps
\* its content and is still in the list the layer-level function returns; a
\* run that finds all its files downloads nothing and returns the list of a
\* first download.
C26_SkipIfExists ==
    \A k \in 1..Len(w_runs) :
        LET r == w_runs[k]
        IN  /\ \A f \in WcsTargets(w_in) :
                   Exists(r.before, f) =>
                       /\ ~InSeq(f, r.reqs)
                       /\ Exists(r.after, f) /\ r.after[f] = r.before[f]
                       /\ f \in WcsReported(w_in) => (r.err = "none" /\ InSeq(f, r.out))
            /\ AllOnDisk(r, w_in) =>
                   (r.reqs = <<>> /\ r.err = "none" /\ r.out = FirstDownload(w_in).out)


(***************************************************************************)
(* The circular buffer: spatial.py, _points_in_circle, _coreg_buffer and   *)
(* raster_buffer.  A radius is an int or a float; the floats of the model  *)
(* are the odd halves, so every radius is held as twice its value.         *)
(***************************************************************************)
IntRadius(r) == [kind |-> "int", twice |-> 2 * r]
HalfRadius(t) == [kind |-> "float", twice |-> t]
BufferChoices ==
    {IntRadius(r) : r \in 0..3} \cup {HalfRadius(t) : t \in {1, 3, 5}}
    \cup {[kind |-> "str", twice |-> 0]}

\* floor(sqrt(n)) and ceil(sqrt(n)) of a natural number.
FloorSqrt(n) == CHOOSE k \in 0..n : k * k <= n /\ (k + 1) * (k + 1) > n
CeilSqrt(n) == IF FloorSqrt(n) * FloorSqrt(n) = n THEN FloorSqrt(n) ELSE FloorSqrt(n) + 1

\* floor(n / 2) and ceil(n / 2) of an integer.
FloorHalf(n) == n \div 2
CeilHalf(n) == (n + 1) \div 2

\* list(range(a, b)).
RangeSeq(a, b) == IF b > a THEN [k \in 1..(b - a) |-> a + k - 1] ELSE <<>>

\* Lines 72-74 for one i: ri = sqrt(r**2 - (i - i0)**2) and the values
\* range(intceil(j0 - ri), intceil(j0 + ri)) runs over; with r = twice / 2,
\* ri = sqrt(twice**2 - 4 (i - i0)**2) / 2.
InnerRange(i, i0, j0, twice) ==
    LET x == twice * twice - 4 * (i - i0) * (i - i0)
    IN  RangeSeq(j0 - FloorHalf(FloorSqrt(x)), j0 + CeilHalf(CeilSqrt(x)))

\* _points_in_circle(i0, j0, r, xlen, ylen): the pairs yielded, in order.
points_in_circle(i0, j0, twice, xlen, ylen) ==
    LET is == RangeSeq(CeilHalf(2 * i0 - twice), CeilHalf(2 * i0 + twice))
        Row(i) ==
            LET js == InnerRange(i, i0, j0, twice)
                pairs == [k \in 1..Len(js) |-> <<i, js[k]>>]
                InArray(p) == (p[1] >= 0 /\ p[1] < xlen) /\ (p[2] >= 0 /\ p[2] < ylen)
            IN  SelectSeq(pairs, InArray)
    IN  Flatten([k \in 1..Len(is) |-> Row(is[k])])

\* data[pts] with pts = tuple(zip(*list(pts_iterator))): the values at the
\* index pairs, or, for the empty tuple, the whole array.
IndexByPoints(data, pts) ==
    IF pts = <<>>
    THEN [ndim |-> 2, vals |-> Flatten(data)]
    ELSE [ndim |-> 1, vals |-> [k \in 1..Len(pts) |-> ArrAt(data, pts[k][1], pts[k][2])]]

BufferInputs == [long : {p[1] : p \in PointChoices}, lat : {p[2] : p \in PointChoices},
                 raster : FilePaths, buffer : BufferChoices]

BufferInit ==
    /\ b_in \in {inp \in BufferInputs : <<inp.long, inp.lat>> \in PointChoices}
    /\ b_pc = "call"
    /\ b_pts = <<>>
    /\ b_values = <<>>

\* raster_buffer(long, lat, raster, buffer), with _coreg_buffer.
raster_buffer ==
    /\ b_pc = "call"
    /\ LET raster == Files[b_in.raster]
       IN  IF raster.kind = "missing"
           THEN b_pc' = "raised" /\ UNCHANGED <<b_pts, b_values>>   \* RasterioIOError
           ELSE IF b_in.buffer.kind \notin {"float", "int"}
           THEN b_pc' = "raised" /\ UNCHANGED <<b_pts, b_values>>   \* UnboundLocalError
           ELSE LET point == get_coords_at_point(raster.transform, b_in.long, b_in.lat)
                    pts == points_in_circle(point[1], point[2], b_in.buffer.twice,
                                            Height(raster.arr), Width(raster.arr))
                IN  /\ b_pts' = pts
                    /\ b_values' = IndexByPoints(raster.arr, pts)
                    /\ b_pc' = "returned"
    /\ UNCHANGED b_in
    /\ UNCHANGED <<CoreVars, GeeVars, DepthVars, DemVars, WcsVars, HarvestVars>>

BufferNext == raster_buffer

BufferSpecInit ==
    BufferInit /\ CoreIdle /\ GeeIdle /\ DepthIdle /\ DemIdle /\ WcsIdle /\ HarvestIdle

BufferSpec == BufferSpecInit /\ [][BufferNext]_vars

\* The index pairs of the array that lie in the circle of the call.
CentreOf(inp) == get_coords_at_point(Files[inp.raster].transform, inp.long, inp.lat)
InCircle(inp) ==
    LET arr == Files[inp.raster].arr
        c == CentreOf(inp)
    IN  {p \in (0..(Height(arr) - 1)) \X (0..(Width(arr) - 1)) :
            4 * ((p[1] - c[1]) * (p[1] - c[1]) + (p[2] - c[2]) * (p[2] - c[2]))
                <= inp.buffer.twice * inp.buffer.twice}

\* C29: _points_in_circle yields exactly the index pairs inside the array and
\* inside the circle, each once.
C29_ExactlyTheCircle ==
    b_pc = "returned" =>
        /\ {b_pts[k] : k \in 1..Len(b_pts)} = InCircle(b_in)
        /\ \A k, l \in 1..Len(b_pts) : b_pts[k] = b_pts[l] => k = l

\* C30: raster_buffer returns one value per index pair yielded, each the value
\* of a pixel inside the circle, and no value when the circle holds no pixel
\* of the array.
C30_OnlyValuesInsideCircle ==
    b_pc = "returned" =>
        /\ Len(b_values.vals) = Len(b_pts)
        /\ \A k \in 1..Len(b_pts) :
               /\ b_pts[k] \in InCircle(b_in)
               /\ b_values.vals[k] = ArrAt(Files[b_in.raster].arr, b_pts[k][1], b_pts[k][2])
        /\ InCircle(b_in) = {} => b_values.vals = <<>>

=============================================================================
